---- MODULE Spec2Model ----
(***************************************************************************)
(* Model of the prediction-market arbitrage bot: the strategy matchers,   *)
(* the detection coordinator, the opportunity scorer and the position     *)
(* sizer / capital allocator, the risk manager and the legacy trade       *)
(* executor.                                                              *)
(*                                                                        *)
(* Numbers.  The program computes with Python floats.  The model computes *)
(* with exact rationals <<num, den>> (den > 0, lowest terms); a price is  *)
(* an integer number of cents, converted with Cents(p) = p/100.  Where a  *)
(* comparison sits on a rounding boundary (the imbalance tests of the     *)
(* YES/NO matcher) it is made on the binary64 values themselves.          *)
(***************************************************************************)
EXTENDS Integers, Sequences, FiniteSets, TLC

VARIABLES
    config,          \* Config: the settings object every component is built from
    markets,         \* the snapshot list handed to a matcher / ArbitrageDetector
    gas_price,       \* the gas price handed to filter_profitable_opportunities
    opportunities,   \* result of the last detect call: [raised, out]
    profitable,      \* result of filter_profitable_opportunities
    scored,          \* result of OpportunityScorer.score_opportunities
    strategy,        \* the matcher instance under call (its constructor fields)
    sizing,          \* arguments of a PositionSizer / CapitalAllocator call
    allocation,      \* result of the sizer / allocator call
    now,             \* the clock datetime.now() reads, in hours
    risk_manager,    \* RiskManager: positions and current_exposure
    trade_executor,  \* legacy TradeExecutor: execution_history
    to_close,        \* result of the last RiskManager check: position ids
    ws_client,       \* WebSocketClient: is_running, websocket, _reconnect_delay
    connections,     \* the connections websockets.connect has opened, and their state
    pc               \* where the caller stands

vars == <<config, markets, gas_price, opportunities, profitable, scored,
          strategy, sizing, allocation, now, risk_manager, trade_executor,
          to_close, ws_client, connections, pc>>

\* the clock and the stateful components the pure calls never touch
components == <<now, risk_manager, trade_executor, to_close, ws_client, connections>>

(***************************************************************************)
(* Exact rational arithmetic (Python float arithmetic, without rounding). *)
(***************************************************************************)
RECURSIVE GCD(_, _)
GCD(a, b) == IF b = 0 THEN a ELSE GCD(b, a % b)

Abs(x) == IF x < 0 THEN -x ELSE x

\* n/d in lowest terms with a positive denominator (d # 0)
Rat(n, d) ==
    LET g == GCD(Abs(n), Abs(d))
        s == IF d < 0 THEN -1 ELSE 1
    IN  <<(s * n) \div g, (s * d) \div g>>

RInt(n) == <<n, 1>>
Cents(p) == Rat(p, 100)

RAdd(a, b) ==
    LET g == GCD(a[2], b[2])
    IN  Rat(a[1] * (b[2] \div g) + b[1] * (a[2] \div g), (a[2] \div g) * b[2])
RNeg(a) == <<-a[1], a[2]>>
RSub(a, b) == RAdd(a, RNeg(b))
RMul(a, b) ==
    LET g1 == GCD(Abs(a[1]), b[2])
        g2 == GCD(Abs(b[1]), a[2])
    IN  Rat((a[1] \div g1) * (b[1] \div g2), (a[2] \div g2) * (b[2] \div g1))
\* a / b, for b # 0 (Python raises ZeroDivisionError on b = 0: see the callers)
RDiv(a, b) == RMul(a, Rat(b[2], b[1]))
\* comparisons over the least common denominator
RLt(a, b) ==
    LET g == GCD(a[2], b[2])
    IN  a[1] * (b[2] \div g) < b[1] * (a[2] \div g)
RLe(a, b) ==
    LET g == GCD(a[2], b[2])
    IN  a[1] * (b[2] \div g) <= b[1] * (a[2] \div g)
RGt(a, b) == RLt(b, a)
RGe(a, b) == RLe(b, a)
RMin(a, b) == IF RLt(b, a) THEN b ELSE a
RMax(a, b) == IF RGt(b, a) THEN b ELSE a
RAbs(a) == <<Abs(a[1]), a[2]>>
RZero == RInt(0)
RHundred == RInt(100)
IsZero(a) == a[1] = 0

RECURSIVE RSum(_)
RSum(s) == IF s = <<>> THEN RZero ELSE RAdd(Head(s), RSum(Tail(s)))

(***************************************************************************)
(* Sequence helpers.                                                      *)
(***************************************************************************)
RECURSIVE Flatten(_)
Flatten(ss) == IF ss = <<>> THEN <<>> ELSE Head(ss) \o Flatten(Tail(ss))

Range(s) == {s[i] : i \in DOMAIN s}

(***************************************************************************)
(* Market snapshots.  A price field holds an integer number of cents, or  *)
(* None when the feed did not carry it.                                   *)
(***************************************************************************)
None == -1000000

IsNum(x) == x # None

Market(id, q, cat, yp, np, yb, ya, nb, na, liq) ==
    [market_id |-> id, question |-> q, category |-> cat,
     yes_price |-> yp, no_price |-> np,
     yes_bid |-> yb, yes_ask |-> ya, no_bid |-> nb, no_ask |-> na,
     liquidity |-> liq]

(***************************************************************************)
(* Python floats (IEEE-754 binary64), for the comparisons whose outcome    *)
(* depends on rounding.  A float is [neg, m, e] of value (-1)^neg m 2^e    *)
(* with m = 0 or 2^52 <= m < 2^53; m is a natural number written as its    *)
(* base-32768 digits, least significant first (<<>> is 0).  Subnormals,    *)
(* infinities and NaN do not arise for the prices modelled.                *)
(***************************************************************************)
RECURSIVE BigTrim(_)
BigTrim(a) ==
    IF a = <<>> THEN a
    ELSE IF a[Len(a)] = 0 THEN BigTrim(SubSeq(a, 1, Len(a) - 1))
    ELSE a

RECURSIVE BigOf(_)
BigOf(n) == IF n = 0 THEN <<>> ELSE <<n % 32768>> \o BigOf(n \div 32768)

BigRest(a) == IF a = <<>> THEN a ELSE Tail(a)
BigLow(a) == IF a = <<>> THEN 0 ELSE Head(a)

RECURSIVE BigAddCarry(_, _, _)
BigAddCarry(a, b, carry) ==
    IF a = <<>> /\ b = <<>> THEN BigOf(carry)
    ELSE LET sum == BigLow(a) + BigLow(b) + carry
         IN  <<sum % 32768>> \o BigAddCarry(BigRest(a), BigRest(b), sum \div 32768)

BigAdd(a, b) == BigAddCarry(a, b, 0)

RECURSIVE BigSubBorrow(_, _, _)
BigSubBorrow(a, b, borrow) ==
    IF a = <<>> THEN <<>>
    ELSE LET diff == Head(a) - BigLow(b) - borrow
         IN  <<(diff + 32768) % 32768>>
             \o BigSubBorrow(Tail(a), BigRest(b), IF diff < 0 THEN 1 ELSE 0)

\* a - b for a >= b
BigSub(a, b) == BigTrim(BigSubBorrow(a, b, 0))

RECURSIVE BigCmpAt(_, _, _)
BigCmpAt(a, b, i) ==
    IF i = 0 THEN 0
    ELSE IF a[i] < b[i] THEN -1
    ELSE IF a[i] > b[i] THEN 1
    ELSE BigCmpAt(a, b, i - 1)

\* -1, 0 or 1 as a < b, a = b or a > b
BigCmp(a, b) ==
    IF Len(a) < Len(b) THEN -1
    ELSE IF Len(a) > Len(b) THEN 1
    ELSE BigCmpAt(a, b, Len(a))

RECURSIVE BigMulCarry(_, _, _)
BigMulCarry(a, k, carry) ==
    IF a = <<>> THEN BigOf(carry)
    ELSE LET prod == Head(a) * k + carry
         IN  <<prod % 32768>> \o BigMulCarry(Tail(a), k, prod \div 32768)

\* a * k for 0 <= k < 32768
BigMulSmall(a, k) == BigTrim(BigMulCarry(a, k, 0))

RECURSIVE BigDivSmall(_, _)
\* quotient (untrimmed) and remainder of a / k for 0 < k < 32768
BigDivSmall(a, k) ==
    IF a = <<>> THEN [q |-> <<>>, r |-> 0]
    ELSE LET high == BigDivSmall(Tail(a), k)
             cur == high.r * 32768 + Head(a)
         IN  [q |-> <<cur \div k>> \o high.q, r |-> cur % k]

RECURSIVE Pow2(_)
Pow2(n) == IF n = 0 THEN 1 ELSE 2 * Pow2(n - 1)

RECURSIVE BitLen(_)
BitLen(n) == IF n = 0 THEN 0 ELSE 1 + BitLen(n \div 2)

BigBitLen(a) == IF a = <<>> THEN 0 ELSE 15 * (Len(a) - 1) + BitLen(a[Len(a)])

RECURSIVE BigShl(_, _)
\* a * 2^n
BigShl(a, n) ==
    IF a = <<>> \/ n = 0 THEN a
    ELSE IF n >= 15 THEN <<0>> \o BigShl(a, n - 15)
    ELSE BigMulSmall(a, Pow2(n))

BigShrSmall(d, sticky) == [q |-> BigTrim(d.q), sticky |-> sticky \/ d.r # 0]

RECURSIVE BigShrSticky(_, _, _)
\* [q, sticky]: a \div 2^n, and whether a bit was shifted out (or sticky was set)
BigShrSticky(a, n, sticky) ==
    IF a = <<>> \/ n = 0 THEN [q |-> a, sticky |-> sticky]
    ELSE IF n >= 15 THEN BigShrSticky(Tail(a), n - 15, sticky \/ Head(a) # 0)
    ELSE BigShrSmall(BigDivSmall(a, Pow2(n)), sticky)

\* a \div 2^n
BigShr(a, n) == BigShrSticky(a, n, FALSE).q

FloatZero == [neg |-> FALSE, m |-> <<>>, e |-> 0]

\* the mantissa after rounding up may have reached 2^53
FloatCarry(neg, m, e) ==
    IF BigBitLen(m) > 53 THEN [neg |-> neg, m |-> BigShr(m, 1), e |-> e + 1]
    ELSE [neg |-> neg, m |-> m, e |-> e]

\* q: the 53 kept bits; half: the first dropped bit; sticky: any later one
FloatRoundUp(neg, q, half, sticky, e) ==
    IF half /\ (sticky \/ q[1] % 2 = 1) THEN FloatCarry(neg, BigAdd(q, <<1>>), e)
    ELSE [neg |-> neg, m |-> q, e |-> e]

\* cut: the 54 leading bits of the number and the sticky bit of the rest
FloatRoundCut(neg, cut, e) ==
    FloatRoundUp(neg, BigShr(cut.q, 1), cut.q[1] % 2 = 1, cut.sticky, e)

FloatRoundLen(neg, n, e, sticky, len) ==
    IF len <= 53 THEN [neg |-> neg, m |-> BigShl(n, 53 - len), e |-> e - (53 - len)]
    ELSE FloatRoundCut(neg, BigShrSticky(n, len - 54, sticky), e + len - 53)

\* round-to-nearest-even of (-1)^neg (n + f) 2^e to 53 significant bits,
\* where 0 <= f < 1 and sticky tells whether f > 0
FloatRound(neg, n, e, sticky) ==
    IF n = <<>> THEN FloatZero ELSE FloatRoundLen(neg, n, e, sticky, BigBitLen(n))

FloatOfQuotient(neg, scaled) == FloatRound(neg, BigTrim(scaled.q), -75, scaled.r # 0)

\* float(p / q) of a decimal literal: the binary64 nearest to p / q, 0 < q < 32768
FloatOf(p, q) == FloatOfQuotient(p < 0, BigDivSmall(BigShl(BigOf(Abs(p)), 75), q))

FloatNeg(x) == IF x.m = <<>> THEN x ELSE [x EXCEPT !.neg = ~x.neg]

\* a 2^e and b 2^e with their signs, c the comparison of a with b
FloatAddAligned(xneg, a, yneg, b, e, c) ==
    FloatRound(IF c >= 0 THEN xneg ELSE yneg,
               IF xneg = yneg THEN BigAdd(a, b)
               ELSE IF c >= 0 THEN BigSub(a, b) ELSE BigSub(b, a),
               e, FALSE)

FloatAddAt(x, a, y, b, e) == FloatAddAligned(x.neg, a, y.neg, b, e, BigCmp(a, b))

FloatAddShifted(x, y, e) == FloatAddAt(x, BigShl(x.m, x.e - e), y, BigShl(y.m, y.e - e), e)

\* x + y
FloatAdd(x, y) ==
    IF x.m = <<>> THEN y
    ELSE IF y.m = <<>> THEN x
    ELSE FloatAddShifted(x, y, IF x.e < y.e THEN x.e ELSE y.e)

\* x - y
FloatSub(x, y) == FloatAdd(x, FloatNeg(y))

FloatPositive(x) == x.m # <<>> /\ ~x.neg

\* x > y
FloatGt(x, y) == FloatPositive(FloatSub(x, y))

\* what a detect() call hands back: a list, or an exception that left it
Returned(out) == [raised |-> FALSE, out |-> out]
Raised == [raised |-> TRUE, out |-> <<>>]

\* the $100 reference position every matcher estimates profit for
position_size == 100

(***************************************************************************)
(* YesNoImbalanceStrategy (strategies/yes_no_imbalance.py).               *)
(* strat: [min_profit_pct, imbalance_threshold], both rationals; the two  *)
(* imbalance tests are made on the floats the code computes.              *)
(***************************************************************************)
YesNoImbalanceStrategy(min_profit_pct, imbalance_threshold) ==
    [min_profit_pct |-> min_profit_pct, imbalance_threshold |-> imbalance_threshold]

\* 1.0 - (yes_ask + no_ask) > imbalance_threshold, on the floats
BuyImbalanceExceeds(strat, market) ==
    FloatGt(FloatSub(FloatOf(1, 1),
                     FloatAdd(FloatOf(market.yes_ask, 100),
                              FloatOf(market.no_ask, 100))),
            FloatOf(strat.imbalance_threshold[1], strat.imbalance_threshold[2]))

\* (yes_bid + no_bid) - 1.0 > imbalance_threshold, on the floats
SellImbalanceExceeds(strat, market) ==
    FloatGt(FloatSub(FloatAdd(FloatOf(market.yes_bid, 100),
                              FloatOf(market.no_bid, 100)),
                     FloatOf(1, 1)),
            FloatOf(strat.imbalance_threshold[1], strat.imbalance_threshold[2]))

\* the arithmetic of one loop iteration that raises: None + x (TypeError) or
\* buy_imbalance / 0 (ZeroDivisionError)
YesNoRaises(strat, market) ==
    \/ ~IsNum(market.yes_ask) \/ ~IsNum(market.no_ask)
    \/ ~IsNum(market.yes_bid) \/ ~IsNum(market.no_bid)
    \/ LET buy_sum == RAdd(Cents(market.yes_ask), Cents(market.no_ask))
           buy_imbalance == RSub(RInt(1), buy_sum)
       IN  BuyImbalanceExceeds(strat, market) /\ IsZero(buy_sum)

\* YesNoBuyBoth with the profit percentage taken against 1.0 (as the sell side
\* does) instead of against buy_sum
YesNoBuyBoth_PctOfOne(strat, market) ==
    LET buy_sum == RAdd(Cents(market.yes_ask), Cents(market.no_ask))
        buy_imbalance == RSub(RInt(1), buy_sum)
        profit_pct == RMul(RDiv(buy_imbalance, RInt(1)), RInt(100))
    IN  IF BuyImbalanceExceeds(strat, market)
           /\ RGe(profit_pct, strat.min_profit_pct)
        THEN <<[type |-> "YesNoImbalance", market |-> market,
                yes_price |-> Cents(market.yes_ask),
                no_price |-> Cents(market.no_ask),
                price_sum |-> buy_sum, imbalance |-> buy_imbalance,
                profit_percentage |-> profit_pct,
                expected_profit |-> RMul(buy_imbalance, RInt(position_size)),
                action |-> "buy_both"]>>
        ELSE <<>>

YesNoBuyBoth(strat, market) ==
    LET buy_sum == RAdd(Cents(market.yes_ask), Cents(market.no_ask))
        buy_imbalance == RSub(RInt(1), buy_sum)
        profit_pct == RMul(RDiv(buy_imbalance, buy_sum), RInt(100))
    IN  IF BuyImbalanceExceeds(strat, market)
           /\ RGe(profit_pct, strat.min_profit_pct)
        THEN <<[type |-> "YesNoImbalance", market |-> market,
                yes_price |-> Cents(market.yes_ask),
                no_price |-> Cents(market.no_ask),
                price_sum |-> buy_sum, imbalance |-> buy_imbalance,
                profit_percentage |-> profit_pct,
                expected_profit |-> RMul(buy_imbalance, RInt(position_size)),
                action |-> "buy_both"]>>
        ELSE <<>>

YesNoSellBoth(strat, market) ==
    LET sell_sum == RAdd(Cents(market.yes_bid), Cents(market.no_bid))
        sell_imbalance == RSub(sell_sum, RInt(1))
        profit_pct == RMul(RDiv(sell_imbalance, RInt(1)), RInt(100))
    IN  IF SellImbalanceExceeds(strat, market)
           /\ RGe(profit_pct, strat.min_profit_pct)
        THEN <<[type |-> "YesNoImbalance", market |-> market,
                yes_price |-> Cents(market.yes_bid),
                no_price |-> Cents(market.no_bid),
                price_sum |-> sell_sum, imbalance |-> sell_imbalance,
                profit_percentage |-> profit_pct,
                expected_profit |-> RMul(sell_imbalance, RInt(position_size)),
                action |-> "sell_both"]>>
        ELSE <<>>

RECURSIVE YesNoLoop(_, _)
YesNoLoop(strat, ms) ==
    IF ms = <<>> THEN <<>>
    ELSE YesNoBuyBoth(strat, Head(ms)) \o YesNoSellBoth(strat, Head(ms))
         \o YesNoLoop(strat, Tail(ms))

YesNoDetect(strat, ms) ==
    IF \E i \in DOMAIN ms : YesNoRaises(strat, ms[i])
    THEN Raised
    ELSE Returned(YesNoLoop(strat, ms))


(***************************************************************************)
(* CrossMarketStrategy (strategies/cross_market.py).                      *)
(* A question is a sequence of one-character strings.                     *)
(***************************************************************************)
CrossMarketStrategy(min_profit_pct) == [min_profit_pct |-> min_profit_pct]

\* str.lower() on the letters the model's questions use
Lower(c) ==
    CASE c = "A" -> "a" [] c = "B" -> "b" [] c = "W" -> "w" [] c = "X" -> "x"
      [] OTHER -> c

RECURSIVE DropChars(_, _)
\* str.replace(c, "") for every c in chars
DropChars(q, chars) ==
    IF q = <<>> THEN <<>>
    ELSE (IF Head(q) \in chars THEN <<>> ELSE <<Head(q)>>) \o DropChars(Tail(q), chars)

RECURSIVE LStrip(_)
LStrip(q) == IF q # <<>> /\ Head(q) = " " THEN LStrip(Tail(q)) ELSE q

RECURSIVE RStrip(_)
RStrip(q) ==
    IF q # <<>> /\ q[Len(q)] = " " THEN RStrip(SubSeq(q, 1, Len(q) - 1)) ELSE q

\* the slice normalized[:50]
QuestionKeyLen == 50

NormalizeQuestion(question) ==
    LET lowered == [i \in DOMAIN question |-> Lower(question[i])]
        normalized == RStrip(LStrip(DropChars(lowered, {"?", "!"})))
    IN  SubSeq(normalized, 1, IF Len(normalized) < QuestionKeyLen
                              THEN Len(normalized) ELSE QuestionKeyLen)

RECURSIVE FirstKeys(_, _)
\* the keys of a dict filled in list order: each key once, by first appearance
FirstKeys(keys, seen) ==
    IF keys = <<>> THEN <<>>
    ELSE IF Head(keys) \in seen THEN FirstKeys(Tail(keys), seen)
    ELSE <<Head(keys)>> \o FirstKeys(Tail(keys), seen \cup {Head(keys)})

RECURSIVE Members(_, _, _)
\* the markets filed under key k, in list order (keys[i] is the key of ms[i])
Members(ms, keys, k) ==
    IF ms = <<>> THEN <<>>
    ELSE (IF Head(keys) = k THEN <<Head(ms)>> ELSE <<>>)
         \o Members(Tail(ms), Tail(keys), k)

\* groups.values(): one list per key, in first-appearance order
GroupBy(ms, keys) ==
    LET first == FirstKeys(keys, {})
    IN  [g \in DOMAIN first |-> Members(ms, keys, first[g])]

RECURSIVE LongerThan(_, _)
\* [group for group in groups if len(group) > n]
LongerThan(groups, n) ==
    IF groups = <<>> THEN <<>>
    ELSE (IF Len(Head(groups)) > n THEN <<Head(groups)>> ELSE <<>>)
         \o LongerThan(Tail(groups), n)

GroupSimilarMarkets(ms) ==
    LongerThan(GroupBy(ms, [i \in DOMAIN ms |-> NormalizeQuestion(ms[i].question)]), 1)

\* comparing or dividing raises: None <= x (TypeError), x / 0 (ZeroDivisionError)
CheckPriceDifferenceRaises(buy_price, sell_price) ==
    \/ ~IsNum(buy_price) \/ ~IsNum(sell_price)
    \/ (sell_price > buy_price /\ buy_price = 0)

CheckPriceDifference(strat, buy_market, sell_market, outcome, buy_price, sell_price) ==
    LET profit_pct == RMul(RDiv(RSub(Cents(sell_price), Cents(buy_price)),
                                Cents(buy_price)), RInt(100))
    IN  IF sell_price <= buy_price THEN <<>>
        ELSE IF RLt(profit_pct, strat.min_profit_pct) THEN <<>>
        ELSE <<[type |-> "CrossMarket",
                market1 |-> buy_market, market2 |-> sell_market,
                buy_market |-> buy_market.market_id,
                sell_market |-> sell_market.market_id,
                outcome |-> outcome,
                buy_price |-> Cents(buy_price), sell_price |-> Cents(sell_price),
                profit_percentage |-> profit_pct,
                expected_profit |-> RMul(RSub(Cents(sell_price), Cents(buy_price)),
                                         RInt(position_size))]>>

\* CrossPairChecks without the two reverse-direction checks
CrossPairChecks_OneWay(market1, market2) ==
    << <<market1, market2, "YES", market1.yes_ask, market2.yes_bid>>,
       <<market1, market2, "YES", market1.yes_ask, market2.yes_bid>>,
       <<market1, market2, "NO", market1.no_ask, market2.no_bid>>,
       <<market1, market2, "NO", market1.no_ask, market2.no_bid>> >>

\* the four checks made for the pair (market1, market2), in the code's order
CrossPairChecks(market1, market2) ==
    << <<market1, market2, "YES", market1.yes_ask, market2.yes_bid>>,
       <<market2, market1, "YES", market2.yes_ask, market1.yes_bid>>,
       <<market1, market2, "NO", market1.no_ask, market2.no_bid>>,
       <<market2, market1, "NO", market2.no_ask, market1.no_bid>> >>

\* the pairs (i, j), i < j, in the order of the two nested loops
RECURSIVE PairsFrom_Adjacent(_, _, _)
\* only the pairs of neighbours
PairsFrom_Adjacent(n, i, j) ==
    IF i >= n THEN <<>>
    ELSE <<<<i, i + 1>>>> \o PairsFrom_Adjacent(n, i + 1, i + 2)

RECURSIVE PairsFrom(_, _, _)
PairsFrom(n, i, j) ==
    IF i >= n THEN <<>>
    ELSE IF j > n THEN PairsFrom(n, i + 1, i + 2)
    ELSE <<<<i, j>>>> \o PairsFrom(n, i, j + 1)

FindArbitrageInGroupRaises(group) ==
    \E i \in DOMAIN group, j \in DOMAIN group :
        /\ i < j
        /\ \E k \in 1..4 :
              LET c == CrossPairChecks(group[i], group[j])[k]
              IN  CheckPriceDifferenceRaises(c[4], c[5])

FindArbitrageInGroup(strat, group) ==
    LET pairs == PairsFrom(Len(group), 1, 2)
        PairOpps(p) ==
            LET cs == CrossPairChecks(group[p[1]], group[p[2]])
            IN  Flatten([k \in 1..4 |->
                    CheckPriceDifference(strat, cs[k][1], cs[k][2], cs[k][3],
                                         cs[k][4], cs[k][5])])
    IN  Flatten([p \in DOMAIN pairs |-> PairOpps(pairs[p])])

CrossMarketDetect(strat, ms) ==
    LET market_groups == GroupSimilarMarkets(ms)
    IN  IF \E g \in DOMAIN market_groups : FindArbitrageInGroupRaises(market_groups[g])
        THEN Raised
        ELSE Returned(Flatten([g \in DOMAIN market_groups |->
                                  FindArbitrageInGroup(strat, market_groups[g])]))

(***************************************************************************)
(* MultiLegStrategy (strategies/multi_leg.py).                            *)
(***************************************************************************)
MultiLegStrategy(min_profit_pct, max_legs) ==
    [min_profit_pct |-> min_profit_pct, max_legs |-> max_legs]

Min(a, b) == IF a < b THEN a ELSE b

\* question[:50]
Truncate(q, n) == SubSeq(q, 1, Min(Len(q), n))

GroupRelatedMarkets(ms) ==
    LongerThan(GroupBy(ms, [i \in DOMAIN ms |-> ms[i].category]), 2)

RECURSIVE Combinations(_, _)
\* itertools.combinations(s, k): the k-subsequences of s, in lexicographic
\* order of their positions
Combinations(s, k) ==
    IF k = 0 THEN << <<>> >>
    ELSE IF Len(s) < k THEN <<>>
    ELSE LET with == Combinations(Tail(s), k - 1)
         IN  [c \in DOMAIN with |-> <<Head(s)>> \o with[c]]
             \o Combinations(Tail(s), k)

\* the leg built for the market at 0-based position i of a chain
ChainLeg(market, i) ==
    IF i % 2 = 0
    THEN [market_id |-> market.market_id, action |-> "buy", outcome |-> "YES",
          price |-> market.yes_ask, question |-> Truncate(market.question, 50)]
    ELSE [market_id |-> market.market_id, action |-> "buy", outcome |-> "NO",
          price |-> market.no_ask, question |-> Truncate(market.question, 50)]

ChainLegs(chain) == [i \in DOMAIN chain |-> ChainLeg(chain[i], i - 1)]

\* 1.0 - None raises TypeError
CheckChainRaises(chain) ==
    \E i \in DOMAIN chain : ~IsNum(ChainLegs(chain)[i].price)

CheckChain(strat, chain) ==
    LET legs == ChainLegs(chain)
        total_cost == RSum([i \in DOMAIN legs |-> Cents(legs[i].price)])
        potential_return == RInt(Len(chain))
        profit == RSub(potential_return, total_cost)
        profit_pct == IF RGt(total_cost, RZero)
                      THEN RMul(RDiv(profit, total_cost), RInt(100))
                      ELSE RZero
    IN  IF RGe(profit_pct, strat.min_profit_pct)
        THEN <<[type |-> "MultiLeg", markets |-> chain,
                legs |-> [i \in DOMAIN legs |->
                             [legs[i] EXCEPT !.price = Cents(legs[i].price)]],
                total_profit_percentage |-> profit_pct,
                expected_profit |-> RMul(profit, RInt(100)),
                complexity_score |-> Len(chain)]>>
        ELSE <<>>

\* ChainsFrom bounded by the group size alone, not by max_legs
RECURSIVE ChainsFrom_NoMaxLegs(_, _, _)
ChainsFrom_NoMaxLegs(strat, group, num_markets) ==
    IF num_markets >= Len(group) + 1 THEN <<>>
    ELSE Combinations(group, num_markets)
         \o ChainsFrom_NoMaxLegs(strat, group, num_markets + 1)

\* the combinations _find_chains_in_group examines, in order:
\* range(3, min(len(markets) + 1, max_legs + 1)), then combinations of that size
RECURSIVE ChainsFrom(_, _, _)
ChainsFrom(strat, group, num_markets) ==
    IF num_markets >= Min(Len(group) + 1, strat.max_legs + 1) THEN <<>>
    ELSE Combinations(group, num_markets) \o ChainsFrom(strat, group, num_markets + 1)

ChainsInGroup(strat, group) == ChainsFrom(strat, group, 3)

FindChainsInGroup(strat, group) ==
    LET chains == ChainsInGroup(strat, group)
    IN  Flatten([c \in DOMAIN chains |-> CheckChain(strat, chains[c])])

MultiLegDetect(strat, ms) ==
    LET market_groups == GroupRelatedMarkets(ms)
    IN  IF \E g \in DOMAIN market_groups :
              \E c \in DOMAIN ChainsInGroup(strat, market_groups[g]) :
                  CheckChainRaises(ChainsInGroup(strat, market_groups[g])[c])
        THEN Raised
        ELSE Returned(Flatten([g \in DOMAIN market_groups |->
                                  FindChainsInGroup(strat, market_groups[g])]))

(***************************************************************************)
(* CorrelatedEventsStrategy (strategies/correlated_events.py).            *)
(***************************************************************************)
CorrelatedEventsStrategy(min_profit_pct, min_mispricing) ==
    [min_profit_pct |-> min_profit_pct, min_mispricing |-> min_mispricing]

\* keyword in text (Python's substring test)
Contains(text, keyword) ==
    \E i \in 1..(Len(text) - Len(keyword) + 1) :
        SubSeq(text, i, i + Len(keyword) - 1) = keyword

LowerAll(q) == [i \in DOMAIN q |-> Lower(q[i])]

correlation_patterns ==
    << [keywords |-> {<<"e","l","e","c","t","i","o","n">>,
                      <<"p","r","e","s","i","d","e","n","t">>},
        type |-> "election"],
       [keywords |-> {<<"w","i","n">>,
                      <<"c","h","a","m","p","i","o","n","s","h","i","p">>},
        type |-> "sports"],
       [keywords |-> {<<"p","a","s","s">>, <<"v","o","t","e">>},
        type |-> "legislation"] >>

negative_keywords ==
    {<<"n","o","t">>, <<"w","o","n","'","t">>, <<"f","a","i","l">>,
     <<"l","o","s","e">>, <<"a","g","a","i","n","s","t">>}

\* the first pattern one of whose keywords occurs in the question, else the category
IdentifyEventType(market) ==
    LET question_lower == LowerAll(market.question)
        hits == {n \in DOMAIN correlation_patterns :
                    \E kw \in correlation_patterns[n].keywords :
                        Contains(question_lower, kw)}
    IN  IF hits = {} THEN market.category
        ELSE correlation_patterns[CHOOSE n \in hits : \A h \in hits : n <= h].type

GroupByEventType(ms) ==
    GroupBy(ms, [i \in DOMAIN ms |-> IdentifyEventType(ms[i])])

DetermineCorrelationType(market1, market2) ==
    IF \E kw \in negative_keywords : Contains(LowerAll(market2.question), kw)
    THEN "negative" ELSE "positive"

\* what the correlated market is actually priced at, and on which outcome
CorrelatedActual(primary, correlated) ==
    IF DetermineCorrelationType(primary, correlated) = "positive"
    THEN [outcome |-> "YES", price |-> correlated.yes_price]
    ELSE [outcome |-> "NO", price |-> correlated.no_price]

\* None in a comparison or a sum (TypeError), mispricing / 0 (ZeroDivisionError)
CheckCorrelationRaises(strat, primary, correlated) ==
    LET actual == CorrelatedActual(primary, correlated).price
    IN  \/ ~IsNum(primary.yes_price) \/ ~IsNum(actual)
        \/ (/\ RGt(Cents(primary.yes_price), RAdd(Cents(actual), strat.min_mispricing))
            /\ actual = 0)

CheckCorrelation(strat, primary, correlated) ==
    LET correlation_type == DetermineCorrelationType(primary, correlated)
        implied_prob == Cents(primary.yes_price)
        actual_prob == Cents(CorrelatedActual(primary, correlated).price)
        mispricing == RSub(implied_prob, actual_prob)
        profit_pct == RMul(RDiv(mispricing, actual_prob), RInt(100))
    IN  IF RGt(implied_prob, RAdd(actual_prob, strat.min_mispricing))
           /\ RGe(profit_pct, strat.min_profit_pct)
        THEN <<[type |-> "CorrelatedEvents",
                primary_market |-> primary, correlated_market |-> correlated,
                correlation_type |-> correlation_type,
                primary_outcome |-> "YES",
                correlated_outcome |-> CorrelatedActual(primary, correlated).outcome,
                implied_probability |-> implied_prob,
                actual_probability |-> actual_prob,
                mispricing |-> mispricing,
                profit_percentage |-> profit_pct,
                expected_profit |-> RMul(mispricing, RInt(100))]>>
        ELSE <<>>

FindCorrelationsInGroup(strat, group) ==
    LET pairs == PairsFrom(Len(group), 1, 2)
    IN  Flatten([p \in DOMAIN pairs |->
            CheckCorrelation(strat, group[pairs[p][1]], group[pairs[p][2]])
            \o CheckCorrelation(strat, group[pairs[p][2]], group[pairs[p][1]])])

CorrelatedEventsDetect(strat, ms) ==
    LET event_groups == LongerThan(GroupByEventType(ms), 1)
    IN  IF \E g \in DOMAIN event_groups :
              \E i, j \in DOMAIN event_groups[g] :
                  i # j /\ CheckCorrelationRaises(strat, event_groups[g][i],
                                                  event_groups[g][j])
        THEN Raised
        ELSE Returned(Flatten([g \in DOMAIN event_groups |->
                                  FindCorrelationsInGroup(strat, event_groups[g])]))

(***************************************************************************)
(* OrderBookSpreadStrategy (strategies/order_book_spread.py).             *)
(***************************************************************************)
OrderBookSpreadStrategy(min_spread_pct, min_profit_pct) ==
    [min_spread_pct |-> min_spread_pct, min_profit_pct |-> min_profit_pct]

\* "bid <= 0 or ask <= 0 or ask <= bid" with a None operand that is reached
CalculateSpreadPctRaises(bid, ask) ==
    ~IsNum(bid) \/ (bid > 0 /\ ~IsNum(ask))

CalculateSpreadPct(bid, ask) ==
    IF bid <= 0 \/ ask <= 0 \/ ask <= bid THEN RZero
    ELSE LET mid_price == RDiv(RAdd(Cents(bid), Cents(ask)), RInt(2))
             spread == RSub(Cents(ask), Cents(bid))
         IN  RMul(RDiv(spread, mid_price), RInt(100))

EstimateProfit(bid, ask, liquidity) ==
    LET position_size_usd == RMin(RMul(liquidity, Rat(1, 10)), RInt(100))
        mid_price == RDiv(RAdd(Cents(bid), Cents(ask)), RInt(2))
        units == RDiv(position_size_usd, mid_price)
        spread == RSub(Cents(ask), Cents(bid))
        profit_per_unit == RDiv(spread, RInt(2))
    IN  RMul(units, profit_per_unit)

SpreadOutcome(strat, market, outcome, bid, ask) ==
    LET spread_pct == CalculateSpreadPct(bid, ask)
        mid_price == RDiv(RAdd(Cents(bid), Cents(ask)), RInt(2))
        expected_profit == EstimateProfit(bid, ask, RInt(market.liquidity))
        profit_pct == RMul(RDiv(expected_profit, RMul(mid_price, RInt(100))),
                           RInt(100))
    IN  IF RGe(spread_pct, strat.min_spread_pct)
           /\ RGe(profit_pct, strat.min_profit_pct)
        THEN <<[type |-> "OrderBookSpread", market |-> market, outcome |-> outcome,
                bid_price |-> Cents(bid), ask_price |-> Cents(ask),
                spread_pct |-> spread_pct, mid_price |-> mid_price,
                liquidity |-> RInt(market.liquidity),
                expected_profit |-> expected_profit]>>
        ELSE <<>>

OrderBookSpreadDetect(strat, ms) ==
    IF \E i \in DOMAIN ms :
          \/ CalculateSpreadPctRaises(ms[i].yes_bid, ms[i].yes_ask)
          \/ CalculateSpreadPctRaises(ms[i].no_bid, ms[i].no_ask)
    THEN Raised
    ELSE Returned(Flatten([i \in DOMAIN ms |->
            SpreadOutcome(strat, ms[i], "YES", ms[i].yes_bid, ms[i].yes_ask)
            \o SpreadOutcome(strat, ms[i], "NO", ms[i].no_bid, ms[i].no_ask)]))

(***************************************************************************)
(* TimeBasedStrategy (strategies/time_based.py).  Times are whole hours;  *)
(* a history sample is <<timestamp, yes_price, no_price>>, prices in      *)
(* cents; price_history maps the market ids seen so far to their samples. *)
(***************************************************************************)
TimeBasedStrategy(min_profit_pct, time_window_hours, volatility_threshold) ==
    [min_profit_pct |-> min_profit_pct,
     time_window_hours |-> time_window_hours,
     volatility_threshold |-> volatility_threshold,
     price_history |-> <<>>]

\* a snapshot with its end_date
WithEndDate(market, end_date) ==
    [f \in DOMAIN market \cup {"end_date"} |->
        IF f = "end_date" THEN end_date ELSE market[f]]

history_hours == 24

\* get_price_history(market_id)
GetPriceHistory(price_history, market_id) ==
    IF market_id \in DOMAIN price_history THEN price_history[market_id] ELSE <<>>

\* _update_price_history that never drops a sample
UpdatePriceHistory_NoCutoff(price_history, market, timestamp) ==
    [k \in DOMAIN price_history \cup {market.market_id} |->
        IF k = market.market_id
        THEN Append(GetPriceHistory(price_history, k),
                    <<timestamp, market.yes_price, market.no_price>>)
        ELSE price_history[k]]

UpdatePriceHistory(price_history, market, timestamp) ==
    LET market_id == market.market_id
        appended == Append(GetPriceHistory(price_history, market_id),
                           <<timestamp, market.yes_price, market.no_price>>)
        cutoff == timestamp - history_hours
        kept == SelectSeq(appended, LAMBDA sample : sample[1] >= cutoff)
    IN  [k \in DOMAIN price_history \cup {market_id} |->
            IF k = market_id THEN kept ELSE price_history[k]]

RECURSIVE ISqrtBetween(_, _, _)
\* the k with lo <= k < hi and k * k <= n < (k + 1) * (k + 1)
ISqrtBetween(n, lo, hi) ==
    IF hi - lo <= 1 THEN lo
    ELSE LET mid == (lo + hi) \div 2
         IN  IF mid * mid <= n THEN ISqrtBetween(n, mid, hi)
             ELSE ISqrtBetween(n, lo, mid)

\* x ** 0.5 for x >= 0, to two decimals (rounded down)
Sqrt(x) == Rat(ISqrtBetween((x[1] * 10000) \div x[2], 0, 46340), 100)

PriceIdx(outcome) == IF outcome = "YES" THEN 2 ELSE 3

\* the positive prices of one outcome in a history, in cents
HistoryPrices(samples, outcome) ==
    LET column == [i \in DOMAIN samples |-> samples[i][PriceIdx(outcome)]]
    IN  SelectSeq(column, LAMBDA price : price > 0)

\* std_dev / mean > bound, compared on the squares
VolatilityAbove(volatility_squared, bound) ==
    RLt(bound, RZero) \/ RGt(volatility_squared, RMul(bound, bound))

\* the pattern _analyze_outcome recognises, or "none"
OpportunityType(strat, price_change_pct, time_to_resolution, volatility_squared) ==
    IF /\ RLt(price_change_pct, RInt(-5))
       /\ time_to_resolution < 12
       /\ VolatilityAbove(volatility_squared, strat.volatility_threshold)
    THEN "panic_selling"
    ELSE IF /\ RGt(RAbs(price_change_pct), RInt(10))
            /\ time_to_resolution < 6
            /\ VolatilityAbove(volatility_squared,
                               RMul(strat.volatility_threshold, Rat(3, 2)))
    THEN "last_minute_mispricing"
    ELSE IF /\ VolatilityAbove(volatility_squared,
                               RMul(strat.volatility_threshold, RInt(2)))
            /\ RGt(RAbs(price_change_pct), RInt(8))
    THEN "volatility_spike"
    ELSE "none"

PatternConfidence(opportunity_type, price_change_pct, volatility_score) ==
    CASE opportunity_type = "panic_selling" ->
            RMin(Rat(85, 100), RAdd(Rat(65, 100),
                                    RDiv(RAbs(price_change_pct), RInt(100))))
      [] opportunity_type = "last_minute_mispricing" ->
            RMin(Rat(90, 100), RAdd(Rat(70, 100),
                                    RDiv(RAbs(price_change_pct), RInt(200))))
      [] opportunity_type = "volatility_spike" ->
            RMin(Rat(80, 100), RAdd(Rat(60, 100),
                                    RDiv(volatility_score, RInt(20))))
      [] OTHER -> RZero

\* sum(prices) / len(prices)
Mean(prices) == RDiv(RSum([i \in DOMAIN prices |-> Cents(prices[i])]), RInt(Len(prices)))

SquaredDeviation(price, mean) == RMul(RSub(Cents(price), mean), RSub(Cents(price), mean))

\* sum((p - mean) ** 2 for p in prices) / len(prices)
Variance(prices, mean) ==
    RDiv(RSum([i \in DOMAIN prices |-> SquaredDeviation(prices[i], mean)]),
         RInt(Len(prices)))

StatisticsRecord(current_price, historical_avg, volatility_squared) ==
    [historical_avg |-> historical_avg,
     price_change_pct |->
         RMul(RDiv(RSub(Cents(current_price), historical_avg), historical_avg),
              RInt(100)),
     volatility_squared |-> volatility_squared,
     volatility_score |-> Sqrt(volatility_squared)]

StatisticsAround(prices, current_price, historical_avg) ==
    StatisticsRecord(current_price, historical_avg,
                     RDiv(Variance(prices, historical_avg),
                          RMul(historical_avg, historical_avg)))

\* the statistics of the positive prices (at least one)
PriceStatistics(prices, current_price) ==
    StatisticsAround(prices, current_price, Mean(prices))

PatternOf(strat, stats, time_to_resolution) ==
    OpportunityType(strat, stats.price_change_pct, time_to_resolution,
                    stats.volatility_squared)

\* the part of _analyze_outcome after the prices are collected that raises
AnalyzePricesRaises(strat, prices, current_price, time_to_resolution) ==
    /\ Len(prices) >= 3
    /\ \/ ~IsNum(current_price)
       \/ /\ current_price = 0
          /\ PatternOf(strat, PriceStatistics(prices, current_price),
                       time_to_resolution) # "none"

\* a None price in "p > 0" or in the arithmetic (TypeError); a pattern found at
\* a current price of 0 (ZeroDivisionError)
AnalyzeOutcomeRaises(strat, samples, outcome, current_price, time_to_resolution) ==
    /\ Len(samples) >= 3
    /\ \/ \E i \in DOMAIN samples : ~IsNum(samples[i][PriceIdx(outcome)])
       \/ AnalyzePricesRaises(strat, HistoryPrices(samples, outcome), current_price,
                              time_to_resolution)

\* abs(price_reversion_pct) / 100 of the position, price_reversion_pct being
\* (historical_avg - current_price) / current_price * 100
ExpectedProfit(historical_avg, current_price) ==
    RMul(RInt(position_size),
         RDiv(RAbs(RMul(RDiv(RSub(historical_avg, Cents(current_price)),
                             Cents(current_price)), RInt(100))),
              RInt(100)))

\* the opportunity built once a pattern is recognised, unless its profit is
\* below the minimum
PatternOpportunity(strat, stats, opportunity_type, expected_profit, market, outcome, current_price, time_to_resolution) ==
    IF RLt(expected_profit,
           RDiv(RMul(RInt(position_size), strat.min_profit_pct), RInt(100)))
    THEN <<>>
    ELSE <<[type |-> "TimeBased", market |-> market, outcome |-> outcome,
            current_price |-> Cents(current_price),
            historical_avg |-> stats.historical_avg,
            price_change_pct |-> stats.price_change_pct,
            time_to_resolution |-> RInt(time_to_resolution),
            volatility_score |-> stats.volatility_score,
            opportunity_type |-> opportunity_type,
            expected_profit |-> expected_profit,
            confidence |-> PatternConfidence(opportunity_type,
                                             stats.price_change_pct,
                                             stats.volatility_score)]>>

AnalyzePattern(strat, stats, opportunity_type, market, outcome, current_price, time_to_resolution) ==
    IF opportunity_type = "none" THEN <<>>
    ELSE PatternOpportunity(strat, stats, opportunity_type,
                            ExpectedProfit(stats.historical_avg, current_price),
                            market, outcome, current_price, time_to_resolution)

AnalyzeStatistics(strat, stats, market, outcome, current_price, time_to_resolution) ==
    AnalyzePattern(strat, stats, PatternOf(strat, stats, time_to_resolution),
                   market, outcome, current_price, time_to_resolution)

AnalyzePrices(strat, prices, market, outcome, current_price, time_to_resolution) ==
    IF Len(prices) < 3 THEN <<>>
    ELSE AnalyzeStatistics(strat, PriceStatistics(prices, current_price),
                           market, outcome, current_price, time_to_resolution)

\* _analyze_outcome content with two samples of history
AnalyzeOutcome_TwoSamples(strat, samples, market, outcome, current_price, time_to_resolution) ==
    IF Len(samples) < 2 \/ HistoryPrices(samples, outcome) = <<>> \/ current_price <= 0
    THEN <<>>
    ELSE AnalyzeStatistics(strat,
                           PriceStatistics(HistoryPrices(samples, outcome),
                                           current_price),
                           market, outcome, current_price, time_to_resolution)

\* _analyze_outcome: <<>> for None, else the one opportunity
AnalyzeOutcome(strat, samples, market, outcome, current_price, time_to_resolution) ==
    IF Len(samples) < 3 THEN <<>>
    ELSE AnalyzePrices(strat, HistoryPrices(samples, outcome), market, outcome,
                       current_price, time_to_resolution)

\* one iteration of the loop of detect without the time-window check
TimeBasedStep_NoWindow(strat, st, market, timestamp) ==
    LET time_to_resolution == market.end_date - timestamp
        updated == UpdatePriceHistory(st.price_history, market, timestamp)
        samples == updated[market.market_id]
    IN  IF st.raised THEN st
        ELSE [price_history |-> updated,
              out |-> st.out
                      \o AnalyzeOutcome(strat, samples, market, "YES",
                                        market.yes_price, time_to_resolution)
                      \o AnalyzeOutcome(strat, samples, market, "NO",
                                        market.no_price, time_to_resolution),
              raised |-> FALSE]

\* one iteration of the loop of detect: st is [price_history, out, raised]
TimeBasedStep(strat, st, market, timestamp) ==
    LET time_to_resolution == market.end_date - timestamp
        updated == UpdatePriceHistory(st.price_history, market, timestamp)
        samples == updated[market.market_id]
    IN  IF st.raised THEN st
        ELSE IF time_to_resolution > strat.time_window_hours \/ time_to_resolution < 0
        THEN st
        ELSE IF \/ AnalyzeOutcomeRaises(strat, samples, "YES", market.yes_price,
                                        time_to_resolution)
                \/ AnalyzeOutcomeRaises(strat, samples, "NO", market.no_price,
                                        time_to_resolution)
        THEN [price_history |-> updated, out |-> <<>>, raised |-> TRUE]
        ELSE [price_history |-> updated,
              out |-> st.out
                      \o AnalyzeOutcome(strat, samples, market, "YES",
                                        market.yes_price, time_to_resolution)
                      \o AnalyzeOutcome(strat, samples, market, "NO",
                                        market.no_price, time_to_resolution),
              raised |-> FALSE]

RECURSIVE TimeBasedLoop(_, _, _, _)
TimeBasedLoop(strat, st, ms, timestamp) ==
    IF ms = <<>> THEN st
    ELSE TimeBasedLoop(strat, TimeBasedStep(strat, st, Head(ms), timestamp),
                       Tail(ms), timestamp)

\* detect(markets) forgetting the price history before it starts
TimeBasedDetect_FreshHistory(strat, ms, timestamp) ==
    TimeBasedLoop(strat,
                  [price_history |-> <<>>, out |-> <<>>, raised |-> FALSE],
                  ms, timestamp)

\* detect(markets) at the time the clock shows: the list returned (or the
\* exception) and the price history the call leaves behind
TimeBasedDetect(strat, ms, timestamp) ==
    TimeBasedLoop(strat,
                  [price_history |-> strat.price_history, out |-> <<>>,
                   raised |-> FALSE],
                  ms, timestamp)

\* reset_history() that clears nothing
ResetHistory_KeepsHistory(strat) == strat

\* reset_history()
ResetHistory(strat) == [strat EXCEPT !.price_history = <<>>]

(***************************************************************************)
(* ArbitrageDetector (arbitrage/detector.py).                             *)
(* cfg: the Config fields strategies, min_arbitrage_percentage,           *)
(* min_profit_threshold, safety_margin, gas_safety_buffer.                *)
(***************************************************************************)
\* the stateless strategies __init__ can build, in the order it appends them
\* (time_based, which Config's default list leaves out, is enabled in none of
\* the configurations below)
StrategyOrder == <<"cross_market", "yes_no_imbalance", "multi_leg",
                   "correlated_events", "order_book_spread">>

RECURSIVE EnabledFrom(_, _)
EnabledFrom(cfg, names) ==
    IF names = <<>> THEN <<>>
    ELSE (IF Head(names) \in cfg.strategies THEN <<Head(names)>> ELSE <<>>)
         \o EnabledFrom(cfg, Tail(names))

\* self.strategies (by name)
DetectorStrategies(cfg) == EnabledFrom(cfg, StrategyOrder)

\* strategy.detect(markets) of the instance __init__ builds for this name
StrategyDetect(cfg, name, ms) ==
    CASE name = "cross_market" ->
            CrossMarketDetect(CrossMarketStrategy(cfg.min_arbitrage_percentage), ms)
      [] name = "yes_no_imbalance" ->
            YesNoDetect(YesNoImbalanceStrategy(cfg.min_arbitrage_percentage,
                                               Rat(2, 100)), ms)
      [] name = "multi_leg" ->
            MultiLegDetect(MultiLegStrategy(RMul(cfg.min_arbitrage_percentage,
                                                 RInt(2)), 5), ms)
      [] name = "correlated_events" ->
            CorrelatedEventsDetect(
                CorrelatedEventsStrategy(cfg.min_arbitrage_percentage, Rat(5, 100)), ms)
      [] name = "order_book_spread" ->
            OrderBookSpreadDetect(
                OrderBookSpreadStrategy(RInt(2), cfg.min_arbitrage_percentage), ms)

\* TryStrategy without the except clause: the exception leaves the loop
TryStrategy_NoExcept(cfg, name, ms) == StrategyDetect(cfg, name, ms)

\* try: all_opportunities.extend(strategy.detect(markets)) / except Exception: log
TryStrategy(cfg, name, ms) ==
    LET result == StrategyDetect(cfg, name, ms)
    IN  IF result.raised THEN Returned(<<>>) ELSE result

RECURSIVE DetectLoop(_, _, _)
\* the for loop: [raised, out] with raised set once an exception escapes
DetectLoop(cfg, names, ms) ==
    IF names = <<>> THEN Returned(<<>>)
    ELSE LET first == TryStrategy(cfg, Head(names), ms)
             rest == DetectLoop(cfg, Tail(names), ms)
         IN  IF first.raised \/ rest.raised THEN Raised
             ELSE Returned(first.out \o rest.out)

DetectOpportunities(cfg, ms) == DetectLoop(cfg, DetectorStrategies(cfg), ms)

GasUnits(opportunity) ==
    CASE opportunity.type = "YesNoImbalance" -> 200000
      [] opportunity.type = "CrossMarket" -> 200000
      [] opportunity.type = "MultiLeg" -> 100000 * Len(opportunity.legs)
      [] opportunity.type = "CorrelatedEvents" -> 200000
      [] opportunity.type = "OrderBookSpread" -> 100000
      [] opportunity.type = "TimeBased" -> 150000
      [] OTHER -> 150000

matic_price == Rat(80, 100)

EstimateGasCost(cfg, opportunity, gas) ==
    LET gas_units == RMul(RInt(GasUnits(opportunity)), cfg.gas_safety_buffer)
        gas_cost_matic == RDiv(RMul(gas_units, gas), RInt(1000000000))
    IN  RMul(gas_cost_matic, matic_price)

RECURSIVE FilterProfitableOpportunities_NonStrict(_, _, _)
\* FilterProfitableOpportunities keeping a net profit equal to the bar
FilterProfitableOpportunities_NonStrict(cfg, opps, gas) ==
    IF opps = <<>> THEN <<>>
    ELSE LET opp == Head(opps)
             gas_cost_usd == EstimateGasCost(cfg, opp, gas)
             net_profit == RSub(opp.expected_profit, gas_cost_usd)
         IN  (IF RGe(net_profit, RMul(cfg.min_profit_threshold, cfg.safety_margin))
              THEN <<opp>> ELSE <<>>)
             \o FilterProfitableOpportunities_NonStrict(cfg, Tail(opps), gas)

RECURSIVE FilterProfitableOpportunities(_, _, _)
FilterProfitableOpportunities(cfg, opps, gas) ==
    IF opps = <<>> THEN <<>>
    ELSE LET opp == Head(opps)
             gas_cost_usd == EstimateGasCost(cfg, opp, gas)
             net_profit == RSub(opp.expected_profit, gas_cost_usd)
         IN  (IF RGt(net_profit, RMul(cfg.min_profit_threshold, cfg.safety_margin))
              THEN <<opp>> ELSE <<>>)
             \o FilterProfitableOpportunities(cfg, Tail(opps), gas)

(***************************************************************************)
(* OpportunityScorer (arbitrage/scorer.py).                               *)
(***************************************************************************)
weights == [profit |-> Rat(35, 100), capital_efficiency |-> Rat(25, 100),
            confidence |-> Rat(20, 100), risk |-> Rat(15, 100),
            execution_difficulty |-> Rat(5, 100)]

\* getattr(opportunity, name, 0)
GetAttr(opportunity, name) ==
    IF name \in DOMAIN opportunity THEN opportunity[name] ELSE RZero

ScoreProfit(opportunity) ==
    LET expected_profit == GetAttr(opportunity, "expected_profit")
        profit_pct == GetAttr(opportunity, "profit_percentage")
        absolute_score == RMin(RMul(RDiv(expected_profit, RInt(10)), RInt(100)),
                               RHundred)
        percentage_score == RMin(RMul(profit_pct, RInt(10)), RHundred)
    IN  RDiv(RAdd(absolute_score, percentage_score), RInt(2))

EstimateCapitalRequired(opportunity) ==
    CASE opportunity.type = "YesNoImbalance" ->
            RMul(RAdd(opportunity.yes_price, opportunity.no_price),
                 RInt(position_size))
      [] opportunity.type = "CrossMarket" ->
            RMul(opportunity.buy_price, RInt(position_size))
      [] opportunity.type = "MultiLeg" ->
            RMul(RSum([i \in DOMAIN opportunity.legs |-> opportunity.legs[i].price]),
                 RInt(position_size))
      [] opportunity.type = "CorrelatedEvents" ->
            RMul(RDiv(RAdd(opportunity.implied_probability,
                           opportunity.actual_probability), RInt(2)),
                 RInt(position_size))
      [] OTHER -> RInt(position_size)

ScoreCapitalEfficiency(opportunity) ==
    LET expected_profit == GetAttr(opportunity, "expected_profit")
        capital_required == EstimateCapitalRequired(opportunity)
        roi == RMul(RDiv(expected_profit, capital_required), RInt(100))
    IN  IF IsZero(capital_required) THEN RZero
        ELSE RMin(RMul(roi, RInt(10)), RHundred)

ScoreConfidence(opportunity) ==
    CASE opportunity.type = "YesNoImbalance" -> RInt(90)
      [] opportunity.type = "CrossMarket" -> RInt(80)
      [] opportunity.type = "CorrelatedEvents" -> RInt(70)
      [] opportunity.type = "MultiLeg" -> RInt(60)
      [] OTHER -> RInt(75)

ScoreRisk(opportunity) ==
    LET risk == CASE opportunity.type = "YesNoImbalance" -> 10
                  [] opportunity.type = "CrossMarket" -> 20
                  [] opportunity.type = "CorrelatedEvents" -> 40
                  [] opportunity.type = "MultiLeg" ->
                        30 + opportunity.complexity_score * 5
                  [] OTHER -> 50
    IN  RInt(Min(risk, 100))

ScoreExecutionDifficulty(opportunity) ==
    LET difficulty == CASE opportunity.type = "YesNoImbalance" -> 20
                        [] opportunity.type = "CrossMarket" -> 30
                        [] opportunity.type = "CorrelatedEvents" -> 50
                        [] opportunity.type = "MultiLeg" ->
                              40 + opportunity.complexity_score * 10
                        [] OTHER -> 50
    IN  RInt(Min(difficulty, 100))

\* the weighted total with the profit sub-score counted against the total
WeightedScore_ProfitInverted(profit_score, capital_efficiency, confidence, risk, execution_diff) ==
    RSum(<<RMul(RSub(RHundred, profit_score), weights.profit),
           RMul(capital_efficiency, weights.capital_efficiency),
           RMul(confidence, weights.confidence),
           RMul(RSub(RHundred, risk), weights.risk),
           RMul(RSub(RHundred, execution_diff), weights.execution_difficulty)>>)

\* the weighted total of the five sub-scores
WeightedScore(profit_score, capital_efficiency, confidence, risk, execution_diff) ==
    RSum(<<RMul(profit_score, weights.profit),
           RMul(capital_efficiency, weights.capital_efficiency),
           RMul(confidence, weights.confidence),
           RMul(RSub(RHundred, risk), weights.risk),
           RMul(RSub(RHundred, execution_diff), weights.execution_difficulty)>>)

CalculateScore(opportunity, available_capital) ==
    LET profit_score == ScoreProfit(opportunity)
        capital_efficiency == ScoreCapitalEfficiency(opportunity)
        confidence == ScoreConfidence(opportunity)
        risk == ScoreRisk(opportunity)
        execution_diff == ScoreExecutionDifficulty(opportunity)
        total_score == WeightedScore(profit_score, capital_efficiency,
                                     confidence, risk, execution_diff)
    IN  [opportunity |-> opportunity, score |-> total_score,
         profit_score |-> profit_score,
         capital_efficiency_score |-> capital_efficiency,
         confidence_score |-> confidence, risk_score |-> risk,
         execution_difficulty |-> execution_diff]

\* InsertByScore placing x ahead of the entries that tie with it
RECURSIVE InsertByScore_BeforeTies(_, _)
InsertByScore_BeforeTies(sorted, x) ==
    IF sorted = <<>> THEN <<x>>
    ELSE IF RGt(Head(sorted).score, x.score)
         THEN <<Head(sorted)>> \o InsertByScore_BeforeTies(Tail(sorted), x)
         ELSE <<x>> \o sorted

RECURSIVE InsertByScore(_, _)
\* x goes behind every entry whose score is at least its own
InsertByScore(sorted, x) ==
    IF sorted = <<>> THEN <<x>>
    ELSE IF RGe(Head(sorted).score, x.score)
         THEN <<Head(sorted)>> \o InsertByScore(Tail(sorted), x)
         ELSE <<x>> \o sorted

RECURSIVE SortByScore(_)
\* list.sort(key=score, reverse=True): descending and stable
SortByScore(xs) ==
    IF xs = <<>> THEN <<>>
    ELSE InsertByScore(SortByScore(SubSeq(xs, 1, Len(xs) - 1)), xs[Len(xs)])

ScoreOpportunities(opps, available_capital) ==
    SortByScore([i \in DOMAIN opps |-> CalculateScore(opps[i], available_capital)])

(***************************************************************************)
(* Position sizing (execution/position_sizing.py).                        *)
(* cfg: the Config fields position_sizing_strategy, kelly_fraction,       *)
(* max_position_size, max_total_exposure.                                 *)
(***************************************************************************)
kelly_criterion(win_probability, win_return, loss_return) ==
    IF RLe(win_probability, RZero) \/ RGe(win_probability, RInt(1)) THEN RZero
    ELSE IF RLe(win_return, RZero) THEN RZero
    ELSE LET loss_probability == RSub(RInt(1), win_probability)
             kelly_fraction ==
                 RDiv(RSub(RMul(win_probability, win_return),
                           RMul(loss_probability, RAbs(loss_return))),
                      win_return)
         IN  RMax(RZero, RMin(RInt(1), kelly_fraction))

KellySizing(cfg, profit_pct, confidence, capital) ==
    LET win_return == RDiv(profit_pct, RInt(100))
        win_probability == confidence
        loss_return == RMul(RNeg(win_return), Rat(2, 10))
        kelly_f == RMul(kelly_criterion(win_probability, win_return, loss_return),
                        Rat(5, 10))
        fractional_kelly == RMul(kelly_f, cfg.kelly_fraction)
    IN  RMul(capital, fractional_kelly)

FixedSizing(cfg, capital) == RMin(cfg.max_position_size, RMul(capital, Rat(1, 10)))

PercentageSizing(capital) == RMul(capital, Rat(5, 100))

CalculatePositionSize(cfg, opportunity_profit_pct, opportunity_confidence, available_capital) ==
    LET size ==
            CASE cfg.position_sizing_strategy = "kelly" ->
                    KellySizing(cfg, opportunity_profit_pct, opportunity_confidence,
                                available_capital)
              [] cfg.position_sizing_strategy = "fixed" ->
                    FixedSizing(cfg, available_capital)
              [] cfg.position_sizing_strategy = "percentage" ->
                    PercentageSizing(available_capital)
              [] OTHER -> FixedSizing(cfg, available_capital)
    IN  RMin(size, cfg.max_position_size)

\* AllocateStep that forgets to add the new position to current_exposure
AllocateStep_StaleExposure(cfg, st, scored_opp, i) ==
    IF st.stopped \/ RLe(st.remaining_capital, RZero)
    THEN [st EXCEPT !.stopped = TRUE]
    ELSE LET profit_pct == scored_opp.profit_score
             confidence == RDiv(scored_opp.confidence_score, RInt(100))
             sized == CalculatePositionSize(cfg, profit_pct, confidence,
                                            st.remaining_capital)
             max_allowed == RMin(st.remaining_capital,
                                 RSub(cfg.max_total_exposure, st.current_exposure))
             allocated_size == RMin(sized, max_allowed)
         IN  IF RGt(allocated_size, RZero)
             THEN [allocation |-> Append(st.allocation, <<i, allocated_size>>),
                   remaining_capital |-> RSub(st.remaining_capital, allocated_size),
                   current_exposure |-> st.current_exposure,
                   stopped |-> FALSE]
             ELSE st

\* one iteration of the allocation loop on opportunity number i (0-based);
\* st = [allocation, remaining_capital, current_exposure, stopped]
AllocateStep(cfg, st, scored_opp, i) ==
    IF st.stopped \/ RLe(st.remaining_capital, RZero)
    THEN [st EXCEPT !.stopped = TRUE]
    ELSE LET profit_pct == scored_opp.profit_score
             confidence == RDiv(scored_opp.confidence_score, RInt(100))
             sized == CalculatePositionSize(cfg, profit_pct, confidence,
                                            st.remaining_capital)
             max_allowed == RMin(st.remaining_capital,
                                 RSub(cfg.max_total_exposure, st.current_exposure))
             allocated_size == RMin(sized, max_allowed)
         IN  IF RGt(allocated_size, RZero)
             THEN [allocation |-> Append(st.allocation, <<i, allocated_size>>),
                   remaining_capital |-> RSub(st.remaining_capital, allocated_size),
                   current_exposure |-> RAdd(st.current_exposure, allocated_size),
                   stopped |-> FALSE]
             ELSE st

RECURSIVE AllocateLoop_LastFirst(_, _, _, _)
\* the allocation loop run from the last opportunity of the list to the first
AllocateLoop_LastFirst(cfg, st, opps, i) ==
    IF i >= Len(opps) THEN st
    ELSE AllocateStep(cfg, AllocateLoop_LastFirst(cfg, st, opps, i + 1), opps[i + 1], i)

RECURSIVE AllocateLoop(_, _, _, _)
AllocateLoop(cfg, st, opps, i) ==
    IF i >= Len(opps) THEN st
    ELSE AllocateLoop(cfg, AllocateStep(cfg, st, opps[i + 1], i), opps, i + 1)

\* the returned dict, as the list of its (index, size) items in insertion order
AllocateCapital(cfg, opps, total_capital, current_exposure) ==
    IF RGe(current_exposure, cfg.max_total_exposure) THEN <<>>
    ELSE AllocateLoop(cfg,
                      [allocation |-> <<>>,
                       remaining_capital |-> RSub(total_capital, current_exposure),
                       current_exposure |-> current_exposure,
                       stopped |-> FALSE],
                      opps, 0).allocation

(***************************************************************************)
(* RiskManager (execution/risk_manager.py) and the position-management    *)
(* step of the bot (main.py).  positions is the dict in insertion order;  *)
(* prices are cents, sizes whole shares, entry prices positive.           *)
(***************************************************************************)
\* Position(...) as the dataclass builds it: current_price 0.0, no realized P&L
Position(position_id, market_id, outcome, size, entry_price, entry_time) ==
    [position_id |-> position_id, market_id |-> market_id, outcome |-> outcome,
     size |-> size, entry_price |-> entry_price, entry_time |-> entry_time,
     current_price |-> 0, realized_pnl |-> None]

RiskManager(cfg) ==
    [positions |-> <<>>, total_capital |-> cfg.initial_capital,
     current_exposure |-> RZero]

\* position_id in self.positions
Tracked(rm, position_id) ==
    \E i \in DOMAIN rm.positions : rm.positions[i].position_id = position_id

\* self.positions[position_id]
PositionOf(rm, position_id) ==
    rm.positions[CHOOSE i \in DOMAIN rm.positions :
                    rm.positions[i].position_id = position_id]

PositionCost(position) == RMul(Cents(position.entry_price), RInt(position.size))

AddPosition(rm, position) ==
    [rm EXCEPT
        !.positions =
            IF Tracked(rm, position.position_id)
            THEN [i \in DOMAIN rm.positions |->
                     IF rm.positions[i].position_id = position.position_id
                     THEN position ELSE rm.positions[i]]
            ELSE Append(rm.positions, position),
        !.current_exposure = RAdd(rm.current_exposure, PositionCost(position))]

RemovePosition(rm, position_id) ==
    IF ~Tracked(rm, position_id) THEN rm
    ELSE LET position == PositionOf(rm, position_id)
         IN  [rm EXCEPT
                 !.current_exposure =
                     RSub(rm.current_exposure, PositionCost(position)),
                 !.total_capital =
                     IF IsNum(position.realized_pnl) /\ position.realized_pnl # 0
                     THEN RAdd(rm.total_capital, Cents(position.realized_pnl))
                     ELSE rm.total_capital,
                 !.positions =
                     SelectSeq(rm.positions,
                               LAMBDA q : q.position_id # position_id)]

\* market_prices = {m.market_id: m for m in self.markets}: the last snapshot
\* of a market id wins
MarketPrices(ms, market_id) ==
    LET at == {i \in DOMAIN ms : ms[i].market_id = market_id}
    IN  IF at = {} THEN <<>>
        ELSE <<ms[CHOOSE i \in at : \A j \in at : j <= i]>>

UpdatePositionPrices(rm, ms) ==
    LET Priced(position) ==
            LET found == MarketPrices(ms, position.market_id)
            IN  IF found = <<>> THEN position
                ELSE [position EXCEPT !.current_price =
                         IF position.outcome = "YES" THEN found[1].yes_price
                         ELSE found[1].no_price]
    IN  [rm EXCEPT !.positions =
            [i \in DOMAIN rm.positions |-> Priced(rm.positions[i])]]

PositionIdsOf(positions) == [i \in DOMAIN positions |-> positions[i].position_id]

StopLossFires(cfg, position) ==
    /\ position.current_price > 0
    /\ RGt(RDiv(RSub(Cents(position.entry_price), Cents(position.current_price)),
                Cents(position.entry_price)),
           cfg.stop_loss_percentage)

CheckStopLosses(rm, cfg) ==
    PositionIdsOf(SelectSeq(rm.positions, LAMBDA q : StopLossFires(cfg, q)))

AgeLimitFires(cfg, position, timestamp) ==
    timestamp - position.entry_time > cfg.max_position_age_hours

CheckPositionAge(rm, cfg, timestamp) ==
    PositionIdsOf(SelectSeq(rm.positions,
                            LAMBDA q : AgeLimitFires(cfg, q, timestamp)))

\* _manage_positions: the risk manager it leaves and the ids it decides to
\* close; the closing loop only logs (remove_position is commented out)
ManagePositions(rm, cfg, ms, timestamp) ==
    IF cfg.mode # "auto_trade"
    THEN [risk_manager |-> rm, to_close |-> <<>>]
    ELSE LET priced == UpdatePositionPrices(rm, ms)
         IN  [risk_manager |-> priced,
              to_close |-> CheckStopLosses(priced, cfg)
                           \o CheckPositionAge(priced, cfg, timestamp)]

(***************************************************************************)
(* Input domains.                                                         *)
(***************************************************************************)
(* Legacy TradeExecutor (trade_executor.py).  An opportunity is            *)
(* [type, markets, expected_profit, details]; details maps price keys to   *)
(* cents.  An order is [market_id, side, amount, price, status]; amounts   *)
(* are rationals.                                                          *)
(***************************************************************************)
TradeExecutor(max_trade_size, dry_run, session) ==
    [max_trade_size |-> max_trade_size, dry_run |-> dry_run,
     session |-> session, execution_history |-> <<>>]

TradeOrder(market_id, side, amount, price) ==
    [market_id |-> market_id, side |-> side, amount |-> amount, price |-> price,
     status |-> "pending"]

\* details.get(key, 0.5), in cents
DetailsGet(details, key) == IF key \in DOMAIN details THEN details[key] ELSE 50

\* the price key of the i-th market (i from 1) of a cross-market opportunity:
\* 'market1_yes_ask' for the first, f'market{i-1}_yes_ask' after it (up to four)
PriceKey(i) ==
    CASE i <= 2 -> "market1_yes_ask"
      [] i = 3 -> "market2_yes_ask"
      [] OTHER -> "market3_yes_ask"

\* details.get('markets_info', {}).get(market_id, {})
MarketInfo(details, market_id) ==
    IF "markets_info" \in DOMAIN details
    THEN IF market_id \in DOMAIN details["markets_info"]
         THEN details["markets_info"][market_id] ELSE <<>>
    ELSE <<>>

\* opportunity.markets[0] on an empty list (IndexError), a division by
\* len(markets) = 0 (ZeroDivisionError)
GenerateOrdersRaises(opportunity) ==
    /\ opportunity.type \in {"yes_no_imbalance", "cross_market", "multi_leg"}
    /\ opportunity.markets = <<>>

GenerateOrders(te, opportunity) ==
    LET ms == opportunity.markets
        amount_per_market == RDiv(te.max_trade_size, RInt(Len(ms)))
    IN  CASE opportunity.type = "yes_no_imbalance" ->
               << TradeOrder(ms[1], "YES", RDiv(te.max_trade_size, RInt(2)),
                             DetailsGet(opportunity.details, "yes_ask")),
                  TradeOrder(ms[1], "NO", RDiv(te.max_trade_size, RInt(2)),
                             DetailsGet(opportunity.details, "no_ask")) >>
          [] opportunity.type = "cross_market" ->
               [i \in DOMAIN ms |->
                   TradeOrder(ms[i], "YES", amount_per_market,
                              DetailsGet(opportunity.details, PriceKey(i)))]
          [] opportunity.type = "multi_leg" ->
               [i \in DOMAIN ms |->
                   TradeOrder(ms[i], "YES", amount_per_market,
                              DetailsGet(MarketInfo(opportunity.details, ms[i]),
                                         "yes_ask"))]
          [] OTHER -> <<>>

\* the orders after the max_trade_size check
ScaleOrders(te, orders) ==
    LET total_invested == RSum([i \in DOMAIN orders |-> orders[i].amount])
    IN  IF RGt(total_invested, te.max_trade_size)
        THEN [i \in DOMAIN orders |->
                 [orders[i] EXCEPT !.amount =
                     RMul(orders[i].amount, RDiv(te.max_trade_size, total_invested))]]
        ELSE orders

\* _execute_orders: placed[i] tells whether _place_order succeeded for order i
ExecuteOrders(te, orders, placed) ==
    IF te.dry_run
    THEN [success |-> TRUE,
          orders |-> [i \in DOMAIN orders |-> [orders[i] EXCEPT !.status = "filled"]]]
    ELSE IF ~te.session THEN [success |-> FALSE, orders |-> orders]
    ELSE [success |-> \A i \in DOMAIN orders : placed[i],
          orders |-> [i \in DOMAIN orders |->
                         [orders[i] EXCEPT !.status =
                             IF placed[i] THEN "filled" ELSE "failed"]]]

FailedResult(opportunity, error_message) ==
    [success |-> FALSE, opportunity |-> opportunity, orders |-> <<>>,
     total_invested |-> RZero, expected_return |-> RZero,
     error_message |-> error_message]

\* execute_opportunity: the ExecutionResult returned and the executor it leaves
ExecuteOpportunity(te, opportunity, placed) ==
    LET generated == GenerateOrders(te, opportunity)
        scaled == ScaleOrders(te, generated)
        total_invested ==
            RMin(RSum([i \in DOMAIN generated |-> generated[i].amount]),
                 te.max_trade_size)
        executed == ExecuteOrders(te, scaled, placed)
        result == [success |-> executed.success, opportunity |-> opportunity,
                   orders |-> executed.orders, total_invested |-> total_invested,
                   expected_return |->
                       RMul(total_invested,
                            RAdd(RInt(1), opportunity.expected_profit)),
                   error_message |-> "None"]
    IN  IF GenerateOrdersRaises(opportunity)
        THEN [result |-> FailedResult(opportunity, "exception"), executor |-> te]
        ELSE IF generated = <<>>
        THEN [result |-> FailedResult(opportunity, "Failed to generate orders"),
              executor |-> te]
        ELSE [result |-> result,
              executor |-> [te EXCEPT !.execution_history = Append(@, result)]]

GetExecutionHistory(te) == te.execution_history

GetExecutionStats(te) ==
    LET history == te.execution_history
        total_executions == Len(history)
        successful == Cardinality({i \in DOMAIN history : history[i].success})
        succeeded == SelectSeq(history, LAMBDA r : r.success)
        total_invested == RSum([i \in DOMAIN succeeded |-> succeeded[i].total_invested])
        expected_returns == RSum([i \in DOMAIN succeeded |-> succeeded[i].expected_return])
    IN  [total_executions |-> total_executions,
         successful |-> successful,
         failed |-> total_executions - successful,
         success_rate |-> IF total_executions > 0
                          THEN Rat(successful, total_executions) ELSE RZero,
         total_invested |-> total_invested,
         expected_returns |-> expected_returns,
         expected_profit |-> RSub(expected_returns, total_invested)]

(***************************************************************************)
\* longest snapshot list handed to a matcher
MaxMarkets == 2

\* value of a variable the running scenario does not use
Unused == <<>>
ComponentsUnused ==
    /\ now = Unused /\ risk_manager = Unused /\ trade_executor = Unused
    /\ to_close = Unused /\ ws_client = Unused /\ connections = Unused

\* the sequences over S of length 1..n
RECURSIVE SeqsUpTo(_, _)
SeqsUpTo(S, n) ==
    IF n = 0 THEN {<<>>}
    ELSE LET shorter == SeqsUpTo(S, n - 1)
         IN  shorter \cup {Append(s, x) : s \in {t \in shorter : Len(t) = n - 1}, x \in S}

\* market ids are assigned by position: "m1", "m2", ...
MarketId(i) == <<"m", i>>
WithIds(ms) == [i \in DOMAIN ms |-> [ms[i] EXCEPT !.market_id = MarketId(i)]]

MinProfitPcts == {Rat(1, 2), RInt(5)}

(***************************************************************************)
(* SpecYesNo: YesNoImbalanceStrategy.detect on bounded snapshot lists.    *)
(***************************************************************************)
\* <<yes_ask, no_ask>> and <<yes_bid, no_bid>> in cents
YNAskPairs == {<<48, 48>>, <<49, 48>>, <<49, 49>>, <<52, 52>>, <<0, 0>>,
               <<None, 52>>, <<-10, 50>>, <<-50, 20>>}
YNBidPairs == {<<45, 45>>, <<55, 50>>, <<51, 51>>}

YNMarkets ==
    {Market(MarketId(0), <<"q">>, "politics", a[1], a[2], b[1], a[1], b[2], a[2], 1000) :
        a \in YNAskPairs, b \in YNBidPairs}

InitYesNo ==
    /\ markets \in {WithIds(ms) : ms \in SeqsUpTo(YNMarkets, MaxMarkets)}
    /\ strategy \in {YesNoImbalanceStrategy(p, Rat(2, 100)) : p \in MinProfitPcts}
    /\ opportunities = Unused
    /\ config = Unused /\ gas_price = Unused /\ profitable = Unused
    /\ scored = Unused /\ sizing = Unused /\ allocation = Unused
    /\ ComponentsUnused
    /\ pc = "start"

YesNoCall ==
    /\ pc = "start"
    /\ opportunities' = YesNoDetect(strategy, markets)
    /\ pc' = "yes_no_done"
    /\ UNCHANGED <<config, markets, gas_price, profitable, scored, strategy,
                   sizing, allocation>>
    /\ UNCHANGED components

NextYesNo == YesNoCall

SpecYesNo == InitYesNo /\ [][NextYesNo]_vars


(***************************************************************************)
(* Claims about YesNoImbalanceStrategy.detect (SpecYesNo).                *)
(***************************************************************************)
YesNoReturned == pc = "yes_no_done" /\ ~opportunities.raised

\* the opportunities of the returned list emitted for snapshot i with an action
OppsFor(i, action) ==
    {j \in DOMAIN opportunities.out :
        /\ opportunities.out[j].market.market_id = markets[i].market_id
        /\ opportunities.out[j].action = action}

BuySum(m) == RAdd(Cents(m.yes_ask), Cents(m.no_ask))
SellSum(m) == RAdd(Cents(m.yes_bid), Cents(m.no_bid))

\* yes_ask + no_ask < 1 - imbalance_threshold
BuyTrigger(m) ==
    /\ IsNum(m.yes_ask) /\ IsNum(m.no_ask)
    /\ RLt(BuySum(m), RSub(RInt(1), strategy.imbalance_threshold))

OneBuyBoth(i) ==
    /\ Cardinality(OppsFor(i, "buy_both")) = 1
    /\ \A j \in OppsFor(i, "buy_both") :
          LET o == opportunities.out[j]
          IN  /\ o.imbalance = RSub(RInt(1), BuySum(markets[i]))
              /\ o.profit_percentage =
                    RMul(RDiv(o.imbalance, BuySum(markets[i])), RInt(100))

\* the four quotes are probabilities: numbers in [0, 1]
QuotesInRange(m) ==
    \A p \in {m.yes_ask, m.no_ask, m.yes_bid, m.no_bid} : IsNum(p) /\ 0 <= p /\ p <= 100

\* C1 as stated: every snapshot with yes_ask + no_ask < 1 - imbalance_threshold
\* gets exactly one buy_both opportunity, whose imbalance is 1 - (yes_ask + no_ask)
\* (stated here for snapshots whose quotes are probabilities, where it already fails).
C1_AsStated ==
    YesNoReturned =>
        \A i \in DOMAIN markets :
            QuotesInRange(markets[i]) /\ BuyTrigger(markets[i]) => OneBuyBoth(i)

\* C1 (amended): every snapshot with yes_ask + no_ask < 1 - imbalance_threshold
\* whose profit percentage, imbalance / (yes_ask + no_ask) x 100, is at least
\* min_profit_pct gets exactly one buy_both opportunity in the returned list, with
\* imbalance = 1 - (yes_ask + no_ask) and that profit percentage.
C1_BuyBothWhenProfitable ==
    YesNoReturned =>
        \A i \in DOMAIN markets :
            (/\ BuyTrigger(markets[i])
             /\ ~IsZero(BuySum(markets[i]))
             /\ RGe(RMul(RDiv(RSub(RInt(1), BuySum(markets[i])), BuySum(markets[i])),
                         RInt(100)),
                    strategy.min_profit_pct))
            => OneBuyBoth(i)

\* the end-to-end scenario: asks 0.48 / 0.48, bids 0.45 / 0.45, min_profit_pct 0.5
C1_Witness ==
    /\ YesNoReturned
    /\ strategy.min_profit_pct = Rat(1, 2)
    /\ \E i \in DOMAIN markets :
          /\ markets[i].yes_ask = 48 /\ markets[i].no_ask = 48
          /\ \E j \in OppsFor(i, "buy_both") :
                /\ opportunities.out[j].imbalance = Rat(4, 100)
                /\ opportunities.out[j].profit_percentage = Rat(400, 96)


\* a snapshot none of whose four quotes is missing or negative
C6_WellFormed(m) ==
    \A q \in {m.yes_bid, m.yes_ask, m.no_bid, m.no_ask} : IsNum(q) /\ q >= 0

\* C6: malformed input is skipped, not raised: for a snapshot list in which some
\* market has missing or negative prices, detect() returns without raising and
\* returns exactly the opportunities of the well-formed snapshots.
C6_MalformedInputSkipped ==
    pc = "yes_no_done" =>
        /\ ~opportunities.raised
        /\ opportunities.out =
              YesNoDetect(strategy, SelectSeq(markets, C6_WellFormed)).out

\* a snapshot inside the no-arbitrage band of the matcher
Balanced(m) ==
    /\ \A q \in {m.yes_bid, m.yes_ask, m.no_bid, m.no_ask} : IsNum(q)
    /\ RGe(BuySum(m), RSub(RInt(1), strategy.imbalance_threshold))
    /\ RLe(SellSum(m), RAdd(RInt(1), strategy.imbalance_threshold))

\* C13: a snapshot with yes_ask + no_ask >= 1 - imbalance_threshold and
\* yes_bid + no_bid <= 1 + imbalance_threshold gets no opportunity, neither
\* buy_both nor sell_both, in the list detect returns; and no opportunity of
\* that list has a profit percentage below min_profit_pct.
C13_BalancedEmitsNothing ==
    YesNoReturned =>
        /\ \A i \in DOMAIN markets :
              Balanced(markets[i]) =>
                  OppsFor(i, "buy_both") \cup OppsFor(i, "sell_both") = {}
        /\ \A j \in DOMAIN opportunities.out :
              RGe(opportunities.out[j].profit_percentage, strategy.min_profit_pct)

(***************************************************************************)
(* SpecCross: CrossMarketStrategy.detect on bounded snapshot lists.       *)
(***************************************************************************)
MaxCrossMarkets == 3

\* n copies of the character c
Rep(c, n) == [i \in 1..n |-> c]

QWillX == <<"W", "x", "?">>
QwillxBang == <<" ", "w", "x", "!", " ">>
QOther == <<"b">>
\* two questions that differ only after the 50th character
QLongY == Rep("x", QuestionKeyLen) \o <<"y">>
QLongZ == Rep("x", QuestionKeyLen) \o <<"z">>

\* <<yes_bid, yes_ask, no_bid, no_ask>> in cents
CrossQuotes == {<<58, 62, 38, 42>>, <<68, 72, 28, 32>>, <<63, 64, 36, 37>>,
                <<50, 0, 50, 60>>, <<None, 62, 38, 42>>, <<58, -5, 38, 42>>}

CrossMarket(q, quote) ==
    Market(MarketId(0), q, "politics", quote[2], quote[4],
           quote[1], quote[2], quote[3], quote[4], 1000)

CrossMarkets ==
    {CrossMarket(q, quote) : q \in {QWillX, QOther}, quote \in CrossQuotes}
    \cup {CrossMarket(QwillxBang, <<68, 72, 28, 32>>),
          CrossMarket(QLongY, <<58, 62, 38, 42>>),
          CrossMarket(QLongZ, <<68, 72, 28, 32>>)}

InitCross ==
    /\ markets \in {WithIds(ms) : ms \in SeqsUpTo(CrossMarkets, MaxCrossMarkets)}
    /\ strategy \in {CrossMarketStrategy(p) : p \in MinProfitPcts}
    /\ opportunities = Unused
    /\ config = Unused /\ gas_price = Unused /\ profitable = Unused
    /\ scored = Unused /\ sizing = Unused /\ allocation = Unused
    /\ ComponentsUnused
    /\ pc = "start"

CrossMarketCall ==
    /\ pc = "start"
    /\ opportunities' = CrossMarketDetect(strategy, markets)
    /\ pc' = "cross_done"
    /\ UNCHANGED <<config, markets, gas_price, profitable, scored, strategy,
                   sizing, allocation>>
    /\ UNCHANGED components

NextCross == CrossMarketCall

SpecCross == InitCross /\ [][NextCross]_vars


(***************************************************************************)
(* Claims about CrossMarketStrategy.detect (SpecCross).                   *)
(***************************************************************************)
CrossReturned == pc = "cross_done" /\ ~opportunities.raised

Ask(m, side) == IF side = "YES" THEN m.yes_ask ELSE m.no_ask
Bid(m, side) == IF side = "YES" THEN m.yes_bid ELSE m.no_bid

SameGroup(a, b) == NormalizeQuestion(a.question) = NormalizeQuestion(b.question)

\* the opportunities that buy side on snapshot i and sell it on snapshot j
CrossOpps(i, j, side) ==
    {k \in DOMAIN opportunities.out :
        /\ opportunities.out[k].buy_market = markets[i].market_id
        /\ opportunities.out[k].sell_market = markets[j].market_id
        /\ opportunities.out[k].outcome = side}

MarketOfId(id) == CHOOSE m \in Range(markets) : m.market_id = id

\* B.bid(side) > A.ask(side) and (bid - ask) / ask x 100 > min_profit_pct
GainExceeds(a, b, side) ==
    /\ IsNum(Ask(a, side)) /\ IsNum(Bid(b, side))
    /\ Bid(b, side) > Ask(a, side)
    /\ Ask(a, side) # 0
    /\ RGt(RMul(RDiv(RSub(Cents(Bid(b, side)), Cents(Ask(a, side))),
                     Cents(Ask(a, side))), RInt(100)),
           strategy.min_profit_pct)

\* C2: in the list detect returns, for any two snapshots A, B of one
\* normalized-question group and each side, "buy side on A at A's ask, sell on B
\* at B's bid" is emitted (once) whenever B's bid exceeds A's ask and the
\* percentage gain exceeds min_profit_pct; an unordered pair yields at most 4
\* opportunities; and every emitted opportunity has buy_price < sell_price,
\* buy_price the ask of its buy market and sell_price the bid of its sell market,
\* the two being distinct snapshots of one group.
C2_CrossMarketEmission ==
    CrossReturned =>
        /\ \A i, j \in DOMAIN markets : \A side \in {"YES", "NO"} :
              (i # j /\ SameGroup(markets[i], markets[j])
                     /\ GainExceeds(markets[i], markets[j], side))
              => Cardinality(CrossOpps(i, j, side)) = 1
        /\ \A i, j \in DOMAIN markets :
              Cardinality(UNION {CrossOpps(i, j, side) \cup CrossOpps(j, i, side) :
                                    side \in {"YES", "NO"}}) <= 4
        /\ \A k \in DOMAIN opportunities.out :
              LET o == opportunities.out[k]
                  a == MarketOfId(o.buy_market)
                  b == MarketOfId(o.sell_market)
              IN  /\ o.buy_market # o.sell_market
                  /\ SameGroup(a, b)
                  /\ o.market1 = a /\ o.market2 = b
                  /\ o.buy_price = Cents(Ask(a, o.outcome))
                  /\ o.sell_price = Cents(Bid(b, o.outcome))
                  /\ RLt(o.buy_price, o.sell_price)

\* the end-to-end scenario: A {yes_ask 0.62, yes_bid 0.58}, B {yes_ask 0.72,
\* yes_bid 0.68} under differently punctuated versions of one question
C2_Witness ==
    /\ CrossReturned
    /\ \E i, j \in DOMAIN markets :
          /\ markets[i].question # markets[j].question
          /\ markets[i].yes_ask = 62 /\ markets[j].yes_bid = 68
          /\ \E k \in CrossOpps(i, j, "YES") :
                /\ opportunities.out[k].buy_price = Cents(62)
                /\ opportunities.out[k].sell_price = Cents(68)
          /\ CrossOpps(j, i, "NO") # {}


(***************************************************************************)
(* SpecSizer: PositionSizer.calculate_position_size on bounded inputs.    *)
(***************************************************************************)
SizingConfigs ==
    [position_sizing_strategy : {"kelly", "fixed", "percentage"},
     kelly_fraction : {Rat(1, 4), RInt(1)},
     max_position_size : {RInt(1000), RInt(100)},
     max_total_exposure : {RInt(5000), RInt(150)}]

SizerConfidences == {RZero, Rat(1, 2), Rat(8, 10), Rat(9, 10), RInt(1)}

InitSizer ==
    /\ config \in SizingConfigs
    /\ sizing \in [profit_pct : {RInt(-5), RZero, RInt(5), RInt(10), RInt(100)},
                   confidence : SizerConfidences,
                   capital : {RInt(-100), RZero, RInt(10), RInt(10000), RInt(100000)}]
    /\ allocation = Unused
    /\ markets = Unused /\ gas_price = Unused /\ opportunities = Unused
    /\ profitable = Unused /\ scored = Unused /\ strategy = Unused
    /\ ComponentsUnused
    /\ pc = "start"

SizerCall ==
    /\ pc = "start"
    /\ allocation' = CalculatePositionSize(config, sizing.profit_pct,
                                           sizing.confidence, sizing.capital)
    /\ pc' = "sizer_done"
    /\ UNCHANGED <<config, markets, gas_price, opportunities, profitable, scored,
                   strategy, sizing>>
    /\ UNCHANGED components

NextSizer == SizerCall

SpecSizer == InitSizer /\ [][NextSizer]_vars

\* C7: the size is exactly zero whenever the available capital is zero or
\* negative or the profit percentage is zero or negative, under each policy.
C7_DegenerateSizeIsZero ==
    (/\ pc = "sizer_done"
     /\ (RLe(sizing.capital, RZero) \/ RLe(sizing.profit_pct, RZero)))
    => allocation = RZero

\* C14: under the Kelly policy, the size computed with kelly_fraction = 1.0 is
\* at least the size computed with kelly_fraction = 0.25 from the same profit
\* percentage, confidence, capital and configuration.
C14_FullKellyAtLeastFractional ==
    (/\ pc = "sizer_done"
     /\ config.position_sizing_strategy = "kelly"
     /\ config.kelly_fraction = RInt(1))
    => RGe(allocation,
           CalculatePositionSize([config EXCEPT !.kelly_fraction = Rat(1, 4)],
                                 sizing.profit_pct, sizing.confidence,
                                 sizing.capital))

MaxOpps == 2

\* the two fields of a ScoredOpportunity the allocator reads
AllocScored ==
    [profit_score : {RInt(-5), RInt(5), RInt(50)},
     confidence_score : {RZero, RInt(90)}]

InitAlloc ==
    /\ config \in SizingConfigs
    /\ scored \in SeqsUpTo(AllocScored, MaxOpps)
    /\ sizing \in [total_capital : {RZero, RInt(1000), RInt(10000)},
                   current_exposure : {RZero, RInt(50), RInt(4990), RInt(5000),
                                       RInt(6000)}]
    /\ allocation = Unused
    /\ markets = Unused /\ gas_price = Unused /\ opportunities = Unused
    /\ profitable = Unused /\ strategy = Unused
    /\ ComponentsUnused
    /\ pc = "start"

AllocateCall ==
    /\ pc = "start"
    /\ allocation' = AllocateCapital(config, scored, sizing.total_capital,
                                     sizing.current_exposure)
    /\ pc' = "alloc_done"
    /\ UNCHANGED <<config, markets, gas_price, opportunities, profitable, scored,
                   strategy, sizing>>
    /\ UNCHANGED components

NextAlloc == AllocateCall

SpecAlloc == InitAlloc /\ [][NextAlloc]_vars

\* the exposure when entry k of the allocation was made: the initial
\* current_exposure plus every size allocated before it
ExposureBefore(k) ==
    RAdd(sizing.current_exposure,
         RSum([n \in 1..(k - 1) |-> allocation[n][2]]))

\* C3: every size in the returned allocation is > 0, <= max_position_size and
\* <= max_total_exposure minus the exposure at the moment it is allocated.
C3_AllocationWithinCaps ==
    pc = "alloc_done" =>
        \A k \in DOMAIN allocation :
            /\ RGt(allocation[k][2], RZero)
            /\ RLe(allocation[k][2], config.max_position_size)
            /\ RLe(allocation[k][2],
                   RSub(config.max_total_exposure, ExposureBefore(k)))

\* two opportunities are funded and the second is cut down by the exposure cap
C3_Witness ==
    /\ pc = "alloc_done"
    /\ Len(allocation) = 2
    /\ allocation[2][2] = RSub(config.max_total_exposure, ExposureBefore(2))
    /\ RLt(allocation[2][2], allocation[1][2])


\* the sum of the sizes of the returned allocation
AllocatedTotal == RSum([n \in DOMAIN allocation |-> allocation[n][2]])

MaxOrderMarkets == 3

CrossOrderMarkets ==
    {CrossMarket(QWillX, quote) :
        quote \in {<<58, 62, 38, 42>>, <<68, 72, 28, 32>>, <<63, 64, 36, 37>>,
                   <<50, 0, 50, 60>>, <<None, 62, 38, 42>>}}
    \cup {CrossMarket(QwillxBang, <<68, 72, 28, 32>>),
          CrossMarket(QOther, <<58, 62, 38, 42>>)}

InitCrossOrder ==
    /\ markets \in {WithIds(ms) : ms \in SeqsUpTo(CrossOrderMarkets, MaxOrderMarkets)}
    /\ strategy \in {CrossMarketStrategy(p) : p \in MinProfitPcts}
    /\ opportunities = Unused
    /\ config = Unused /\ gas_price = Unused /\ profitable = Unused
    /\ scored = Unused /\ sizing = Unused /\ allocation = Unused
    /\ ComponentsUnused
    /\ pc = "start"

SpecCrossOrder == InitCrossOrder /\ [][NextCross]_vars

\* the same snapshots in the order p, a permutation of their positions
Reordered(ms, p) == [i \in DOMAIN ms |-> ms[p[i]]]

CrossTuple(o) == <<o.buy_market, o.sell_market, o.outcome, o.expected_profit>>

CrossTupleCount(out, t) == Cardinality({k \in DOMAIN out : CrossTuple(out[k]) = t})

SameCrossMultiset(xs, ys) ==
    /\ Len(xs) = Len(ys)
    /\ \A k \in DOMAIN xs :
          CrossTupleCount(xs, CrossTuple(xs[k])) = CrossTupleCount(ys, CrossTuple(xs[k]))

\* C12: whatever the order of the same snapshots in the input list, detect
\* raises or returns alike, and the returned opportunities are the same
\* multiset of (buy market, sell market, side, profit) tuples.
C12_OrderInvariant ==
    pc = "cross_done" =>
        \A p \in Permutations(DOMAIN markets) :
            LET other == CrossMarketDetect(strategy, Reordered(markets, p))
            IN  /\ other.raised = opportunities.raised
                /\ SameCrossMultiset(other.out, opportunities.out)

\* three snapshots of one group gave several opportunities, and another order
\* of the input gives them in another order
C12_Witness ==
    /\ CrossReturned
    /\ Len(markets) = 3
    /\ Len(opportunities.out) >= 2
    /\ \E p \in Permutations(DOMAIN markets) :
          CrossMarketDetect(strategy, Reordered(markets, p)).out # opportunities.out

(***************************************************************************)
(* SpecMultiLeg: MultiLegStrategy.detect on bounded snapshot lists.       *)
(***************************************************************************)
MaxLegMarkets == 4

\* <<category, yes_ask, no_ask>>
LegQuotes == {<<"politics", 30, 70>>, <<"politics", 99, 99>>, <<"politics", 0, 70>>,
              <<"politics", None, 70>>, <<"sports", 30, 70>>, <<"sports", -20, 70>>}

LegMarkets ==
    {Market(MarketId(0), <<"q">>, x[1], x[2], x[3], x[2], x[2], x[3], x[3], 1000) :
        x \in LegQuotes}

InitMultiLeg ==
    /\ markets \in {WithIds(ms) : ms \in SeqsUpTo(LegMarkets, MaxLegMarkets)}
    /\ strategy \in {MultiLegStrategy(p, n) : p \in {RInt(1), RInt(5)}, n \in {2, 3, 4}}
    /\ opportunities = Unused
    /\ config = Unused /\ gas_price = Unused /\ profitable = Unused
    /\ scored = Unused /\ sizing = Unused /\ allocation = Unused
    /\ ComponentsUnused
    /\ pc = "start"

MultiLegCall ==
    /\ pc = "start"
    /\ opportunities' = MultiLegDetect(strategy, markets)
    /\ pc' = "multi_leg_done"
    /\ UNCHANGED <<config, markets, gas_price, profitable, scored, strategy,
                   sizing, allocation>>
    /\ UNCHANGED components

NextMultiLeg == MultiLegCall

SpecMultiLeg == InitMultiLeg /\ [][NextMultiLeg]_vars


(***************************************************************************)
(* Claims about MultiLegStrategy.detect (SpecMultiLeg).                   *)
(***************************************************************************)
MultiLegReturned == pc = "multi_leg_done" /\ ~opportunities.raised

RECURSIVE Ascending(_)
\* the elements of a set of positions, in increasing order
Ascending(S) ==
    IF S = {} THEN <<>>
    ELSE LET least == CHOOSE x \in S : \A y \in S : x <= y
         IN  <<least>> \o Ascending(S \ {least})

\* the snapshots at the positions S, in list order
ChainAt(S) == [n \in 1..Cardinality(S) |-> markets[Ascending(S)[n]]]

\* the positions of the snapshots of category c
CategoryGroup(c) == {i \in DOMAIN markets : markets[i].category = c}

\* C10: every opportunity MultiLegStrategy.detect emits has complexity_score =
\* its number of legs = its number of markets, between 3 and max_legs; its markets
\* are distinct snapshots of one category, in list order; and each combination of
\* 3..min(group size, max_legs) snapshots of a category group is examined exactly
\* once: a profitable one yields exactly one opportunity, no two opportunities
\* share a combination.
C10_MultiLegCombinations ==
    MultiLegReturned =>
        /\ \A k \in DOMAIN opportunities.out :
              LET o == opportunities.out[k]
              IN  /\ o.complexity_score = Len(o.legs)
                  /\ o.complexity_score = Len(o.markets)
                  /\ 3 <= o.complexity_score
                  /\ o.complexity_score <= strategy.max_legs
                  /\ \E S \in SUBSET DOMAIN markets :
                        /\ o.markets = ChainAt(S)
                        /\ \A i, j \in S : markets[i].category = markets[j].category
        /\ \A k1, k2 \in DOMAIN opportunities.out :
              k1 # k2 => opportunities.out[k1].markets # opportunities.out[k2].markets
        /\ \A S \in SUBSET DOMAIN markets :
              (/\ \E i \in S : S \subseteq CategoryGroup(markets[i].category)
               /\ 3 <= Cardinality(S)
               /\ Cardinality(S) <= strategy.max_legs
               /\ CheckChain(strategy, ChainAt(S)) # <<>>)
              => \E k \in DOMAIN opportunities.out :
                    opportunities.out[k].markets = ChainAt(S)

\* a category group larger than max_legs: four same-category snapshots priced
\* yes_ask 0.30 / no_ask 0.70 with max_legs = 3 give the four 3-leg combinations
C10_Witness ==
    /\ MultiLegReturned
    /\ strategy.max_legs = 3
    /\ Len(markets) = 4
    /\ \A i \in DOMAIN markets :
          markets[i].category = "politics" /\ markets[i].yes_ask = 30
    /\ Len(opportunities.out) = 4
    /\ \A k \in DOMAIN opportunities.out : opportunities.out[k].complexity_score = 3

\* C21: a combination containing a leg whose selected ask (yes_ask at an even
\* position, no_ask at an odd one) is <= 0 never produces an opportunity: every
\* leg of every opportunity MultiLegStrategy.detect emits has a positive price
C21_NonPositiveLegVoids ==
    MultiLegReturned =>
        \A k \in DOMAIN opportunities.out :
            \A i \in DOMAIN opportunities.out[k].legs :
                RGt(opportunities.out[k].legs[i].price, RZero)

(***************************************************************************)
(* SpecDetector: ArbitrageDetector.detect_opportunities on bounded        *)
(* snapshot lists, some of whose snapshots make some matchers raise.      *)
(***************************************************************************)
MaxDetectMarkets == 3

\* the Config fields the detector reads
DetectorConfig(strategies, min_arbitrage_percentage, min_profit_threshold, safety_margin, gas_safety_buffer) ==
    [strategies |-> strategies,
     min_arbitrage_percentage |-> min_arbitrage_percentage,
     min_profit_threshold |-> min_profit_threshold,
     safety_margin |-> safety_margin,
     gas_safety_buffer |-> gas_safety_buffer]

AllStrategies == Range(StrategyOrder)

\* Config's default list, the test configuration's, every matcher, one matcher
StrategyLists ==
    { {"cross_market", "yes_no_imbalance", "multi_leg", "correlated_events"},
      {"cross_market", "yes_no_imbalance"},
      AllStrategies,
      {"order_book_spread"} }

QWin == <<"W", "i", "n">>
QNotWin == <<"n", "o", "t", " ", "w", "i", "n">>
QWins == <<"w", "i", "n", "s">>

\* well-formed snapshots, one without yes_ask, one without mid prices, one with
\* a negative ask
DetectMarkets ==
    { Market(MarketId(0), QWin, "sports", 29, 29, 28, 30, 28, 30, 10000),
      Market(MarketId(0), QWin, "sports", 41, 22, 40, 42, 20, 25, 10000),
      Market(MarketId(0), QNotWin, "sports", 60, 35, 58, 62, 33, 37, 10000),
      Market(MarketId(0), QWins, "sports", 29, 29, 28, None, 28, 30, 10000),
      Market(MarketId(0), QOther, "sports", None, None, 45, 48, 45, 48, 10000),
      Market(MarketId(0), QOther, "sports", 20, 55, -20, -10, 50, 60, 10000) }

InitDetector ==
    /\ config \in {DetectorConfig(sl, Rat(1, 2), RInt(5), Rat(3, 2), Rat(6, 5)) :
                      sl \in StrategyLists}
    /\ markets \in {WithIds(ms) : ms \in SeqsUpTo(DetectMarkets, MaxDetectMarkets)}
    /\ opportunities = Unused
    /\ gas_price = Unused /\ profitable = Unused /\ strategy = Unused
    /\ scored = Unused /\ sizing = Unused /\ allocation = Unused
    /\ ComponentsUnused
    /\ pc = "start"

DetectCall ==
    /\ pc = "start"
    /\ opportunities' = DetectOpportunities(config, markets)
    /\ pc' = "detect_done"
    /\ UNCHANGED <<config, markets, gas_price, profitable, scored, strategy,
                   sizing, allocation>>
    /\ UNCHANGED components

NextDetector == DetectCall

SpecDetector == InitDetector /\ [][NextDetector]_vars

(***************************************************************************)
(* Claims about ArbitrageDetector.detect_opportunities (SpecDetector).    *)
(***************************************************************************)
\* what strategy number k of the initialisation order contributes to the scan
Contribution(k) ==
    LET result == StrategyDetect(config, StrategyOrder[k], markets)
    IN  IF StrategyOrder[k] \in config.strategies /\ ~result.raised
        THEN result.out ELSE <<>>

\* C4: detect_opportunities never raises, and what it returns is exactly the
\* concatenation, in strategy-initialisation order, of the results of the enabled
\* strategies whose detect() did not raise.
C4_DetectorIsolatesFailures ==
    pc = "detect_done" =>
        /\ ~opportunities.raised
        /\ opportunities.out =
              Flatten([k \in DOMAIN StrategyOrder |-> Contribution(k)])

\* yes_no_imbalance raises on the snapshot without yes_ask while cross_market
\* before it and correlated_events after it both return opportunities
C4_Witness ==
    /\ pc = "detect_done"
    /\ {"cross_market", "yes_no_imbalance", "correlated_events"} \subseteq config.strategies
    /\ StrategyDetect(config, "yes_no_imbalance", markets).raised
    /\ ~StrategyDetect(config, "cross_market", markets).raised
    /\ ~StrategyDetect(config, "correlated_events", markets).raised
    /\ \E i, j \in DOMAIN opportunities.out :
          /\ i < j
          /\ opportunities.out[i].type = "CrossMarket"
          /\ opportunities.out[j].type = "CorrelatedEvents"

(***************************************************************************)
(* Opportunities the filter and the scorer are handed: what the detector  *)
(* returns for fixed snapshot lists, and the ones the tests construct.    *)
(***************************************************************************)
\* create_test_market(market_id, yes_price, no_price), prices in cents
create_test_market(market_id, yes_price, no_price) ==
    Market(market_id, <<"T", "q", market_id>>, "test", yes_price, no_price,
           yes_price - 2, yes_price + 2, no_price - 2, no_price + 2, 50000)

SampleMarkets ==
    << Market(MarketId(0), QWin, "sports", 29, 29, 28, 30, 28, 30, 10000),
       Market(MarketId(0), QWin, "sports", 41, 22, 40, 42, 20, 25, 10000),
       Market(MarketId(0), QNotWin, "sports", 60, 35, 58, 62, 33, 37, 10000) >>

\* three snapshots of one category whose YES side is quoted below zero
NegativeMarkets ==
    << create_test_market("bad_1", -50, 30),
       create_test_market("bad_2", -50, 30),
       create_test_market("bad_3", -50, 30) >>

\* Config's defaults with every stateless matcher enabled
DefaultConfig == DetectorConfig(AllStrategies, Rat(1, 2), RInt(5), Rat(3, 2), Rat(6, 5))

\* Config's defaults but for min_arbitrage_percentage = 0, which Config accepts
ZeroMarginConfig ==
    DetectorConfig({"cross_market", "yes_no_imbalance", "multi_leg",
                    "correlated_events"}, RZero, RInt(5), Rat(3, 2), Rat(6, 5))

DetectedOpps(cfg, ms) == Range(DetectOpportunities(cfg, WithIds(ms)).out)

\* the opportunity test_very_high_gas_price builds
HighGasOpp ==
    [type |-> "YesNoImbalance", market |-> create_test_market("market_1", 50, 50),
     yes_price |-> Rat(49, 100), no_price |-> Rat(49, 100),
     price_sum |-> Rat(98, 100), imbalance |-> Rat(2, 100),
     profit_percentage |-> RInt(2), expected_profit |-> RInt(5),
     action |-> "buy_both"]

\* the opportunity test_zero_profit_opportunities builds
ZeroProfitOpp ==
    [type |-> "YesNoImbalance", market |-> create_test_market("market_1", 50, 50),
     yes_price |-> Rat(50, 100), no_price |-> Rat(50, 100),
     price_sum |-> RInt(1), imbalance |-> RZero,
     profit_percentage |-> RZero, expected_profit |-> RZero,
     action |-> "buy_both"]

\* a TimeBasedOpportunity as _analyze_outcome builds it for a price of 0.40
\* against a historical average of 0.50, five hours before resolution
TimeBasedOpp ==
    LET current_price == Rat(40, 100)
        historical_avg == Rat(50, 100)
        price_change_pct == RMul(RDiv(RSub(current_price, historical_avg),
                                      historical_avg), RInt(100))
        price_reversion_pct == RMul(RDiv(RSub(historical_avg, current_price),
                                         current_price), RInt(100))
    IN  [type |-> "TimeBased", market |-> create_test_market("market_1", 40, 60),
         outcome |-> "YES", current_price |-> current_price,
         historical_avg |-> historical_avg,
         price_change_pct |-> price_change_pct,
         time_to_resolution |-> RInt(5),
         volatility_score |-> Rat(1, 5),
         opportunity_type |-> "panic_selling",
         expected_profit |-> RMul(RInt(position_size),
                                  RDiv(RAbs(price_reversion_pct), RInt(100))),
         confidence |-> RMin(Rat(85, 100),
                             RAdd(Rat(65, 100),
                                  RDiv(RAbs(price_change_pct), RInt(100))))]

(***************************************************************************)
(* SpecFilter: ArbitrageDetector.filter_profitable_opportunities.         *)
(***************************************************************************)
MaxFilterOpps == 2

FilterPool ==
    DetectedOpps(DefaultConfig, SampleMarkets)
        \cup {HighGasOpp, ZeroProfitOpp, TimeBasedOpp}

\* gas prices in gwei
GasPrices == {0, 30, 5000}

InitFilter ==
    /\ config \in {DetectorConfig(AllStrategies, Rat(1, 2), RInt(t), m, Rat(6, 5)) :
                      t \in {2, 5}, m \in {Rat(3, 2), RInt(2)}}
    /\ opportunities \in {Returned(os) : os \in SeqsUpTo(FilterPool, MaxFilterOpps)}
    /\ gas_price \in GasPrices
    /\ markets = Unused /\ profitable = Unused /\ strategy = Unused
    /\ scored = Unused /\ sizing = Unused /\ allocation = Unused
    /\ ComponentsUnused
    /\ pc = "start"

FilterCall ==
    /\ pc = "start"
    /\ profitable' = FilterProfitableOpportunities(config, opportunities.out,
                                                   RInt(gas_price))
    /\ pc' = "filter_done"
    /\ UNCHANGED <<config, markets, gas_price, opportunities, scored, strategy,
                   sizing, allocation>>
    /\ UNCHANGED components

NextFilter == FilterCall

SpecFilter == InitFilter /\ [][NextFilter]_vars

(***************************************************************************)
(* Claims about filter_profitable_opportunities (SpecFilter).             *)
(***************************************************************************)
\* gas units by variant, as the claim lists them
C5_GasUnits(opp) ==
    IF opp.type \in {"YesNoImbalance", "CrossMarket", "CorrelatedEvents"} THEN 200000
    ELSE IF opp.type = "MultiLeg" THEN 100000 * Len(opp.legs)
    ELSE IF opp.type = "OrderBookSpread" THEN 100000
    ELSE 150000

\* the bar min_profit_threshold x safety_margin raised by the gas cost
C5_Bar == RMul(config.min_profit_threshold, config.safety_margin)

C5_BarWithGas(opp) ==
    RAdd(C5_Bar,
         RMul(RMul(RInt(C5_GasUnits(opp)), config.gas_safety_buffer),
              RMul(Rat(gas_price, 1000000000), Rat(80, 100))))

C5_Kept(opp) == RGt(opp.expected_profit, C5_BarWithGas(opp))

\* C5: filter_profitable_opportunities returns, in input order, exactly the
\* opportunities whose expected profit minus gas cost (variant gas units x
\* gas_safety_buffer x gas_price / 1e9 x 0.80) strictly exceeds
\* min_profit_threshold x safety_margin; so, gas prices being non-negative,
\* nothing with expected_profit <= min_profit_threshold x safety_margin is kept.
C5_FilterKeepsNetProfitable ==
    pc = "filter_done" =>
        /\ profitable = SelectSeq(opportunities.out, C5_Kept)
        /\ gas_price >= 0 =>
              \A k \in DOMAIN profitable :
                  RGt(profitable[k].expected_profit, C5_Bar)

\* two opportunities go in; the first nets exactly the bar (expected profit 10,
\* no gas, 5 x 2) and is dropped, the second nets more and is kept
C5_Witness ==
    /\ pc = "filter_done"
    /\ Len(opportunities.out) = 2
    /\ gas_price = 0
    /\ opportunities.out[1].expected_profit = C5_Bar
    /\ profitable = <<opportunities.out[2]>>

\* gas alone decides: an opportunity whose expected profit exceeds the bar is
\* dropped at 5000 gwei
C5_WitnessGas ==
    /\ pc = "filter_done"
    /\ gas_price = 5000
    /\ \E k \in DOMAIN opportunities.out :
          /\ RGt(opportunities.out[k].expected_profit, C5_Bar)
          /\ \A j \in DOMAIN profitable : profitable[j] # opportunities.out[k]

(***************************************************************************)
(* SpecScorer: OpportunityScorer.score_opportunities.                     *)
(***************************************************************************)
\* the chain MultiLegStrategy finds in three snapshots of one category asking
\* 0.98 for YES and 0.97 for NO: cost 2.93 for a return of 3
MultiLegOpp ==
    MultiLegDetect(MultiLegStrategy(RInt(1), 3),
                   WithIds(<< create_test_market("leg_1", 96, 95),
                              create_test_market("leg_2", 96, 95),
                              create_test_market("leg_3", 96, 95) >>)).out[1]

MaxScored == 3

\* what the detector returns for two well-formed snapshots and, with
\* min_arbitrage_percentage = 0, for the three negative-priced ones; two
\* opportunities a test builds and a multi-leg chain of positive percentage
ScorePool ==
    DetectedOpps(DefaultConfig, SubSeq(SampleMarkets, 1, 2))
        \cup DetectedOpps(ZeroMarginConfig, NegativeMarkets)
        \cup {ZeroProfitOpp, TimeBasedOpp, MultiLegOpp}

InitScorer ==
    /\ profitable \in SeqsUpTo(ScorePool, MaxScored)
    /\ sizing \in [total_capital : {0, 10000}]
    /\ scored = Unused
    /\ config = Unused /\ markets = Unused /\ gas_price = Unused
    /\ opportunities = Unused /\ strategy = Unused /\ allocation = Unused
    /\ ComponentsUnused
    /\ pc = "start"

ScoreCall ==
    /\ pc = "start"
    /\ scored' = ScoreOpportunities(profitable, RInt(sizing.total_capital))
    /\ pc' = "score_done"
    /\ UNCHANGED <<config, markets, gas_price, opportunities, profitable, strategy,
                   sizing, allocation>>
    /\ UNCHANGED components

NextScorer == ScoreCall

SpecScorer == InitScorer /\ [][NextScorer]_vars

(***************************************************************************)
(* Claims about OpportunityScorer (SpecScorer).                           *)
(***************************************************************************)
InUnitRange(x) == RGe(x, RZero) /\ RLe(x, RHundred)

\* C8: for every scored opportunity each of the five sub-scores (profit, capital
\* efficiency, confidence, risk, execution difficulty) and the weighted composite
\* score lies in [0, 100].
C8_ScoresInRange ==
    pc = "score_done" =>
        \A k \in DOMAIN scored :
            /\ InUnitRange(scored[k].profit_score)
            /\ InUnitRange(scored[k].capital_efficiency_score)
            /\ InUnitRange(scored[k].confidence_score)
            /\ InUnitRange(scored[k].risk_score)
            /\ InUnitRange(scored[k].execution_difficulty)
            /\ InUnitRange(scored[k].score)

\* the entries of a list of scored opportunities whose composite score is v
WithScore(xs, v) == SelectSeq(xs, LAMBDA x : x.score = v)

\* C9: score_opportunities returns one ScoredOpportunity per input opportunity (a
\* permutation of the input), in descending order of composite score, and entries
\* with equal composite score keep their input order: for every score, the
\* entries of the output with that score are the scored inputs with that score,
\* in input order.
C9_StableDescendingRanking ==
    pc = "score_done" =>
        LET each == [i \in DOMAIN profitable |->
                        CalculateScore(profitable[i], RInt(sizing.total_capital))]
        IN  /\ Len(scored) = Len(profitable)
            /\ \A k, l \in DOMAIN scored :
                  k < l => RGe(scored[k].score, scored[l].score)
            /\ \A v \in {x.score : x \in Range(each) \cup Range(scored)} :
                  WithScore(scored, v) = WithScore(each, v)

\* three opportunities go in, the first with the lowest score, the other two
\* different opportunities with one and the same score: the two come out first,
\* in their input order
C9_Witness ==
    /\ pc = "score_done"
    /\ Len(profitable) = 3
    /\ profitable[2] # profitable[3]
    /\ scored[1].opportunity = profitable[2]
    /\ scored[2].opportunity = profitable[3]
    /\ scored[3].opportunity = profitable[1]
    /\ scored[1].score = scored[2].score
    /\ RGt(scored[2].score, scored[3].score)


\* the profit percentage an opportunity carries: profit_percentage, for a
\* multi-leg opportunity total_profit_percentage; 0 for the variants that carry
\* none (order-book spread, time-based)
OwnProfitPercentage(opportunity) ==
    IF "profit_percentage" \in DOMAIN opportunity THEN opportunity.profit_percentage
    ELSE IF "total_profit_percentage" \in DOMAIN opportunity
    THEN opportunity.total_profit_percentage
    ELSE RZero

\* C22: for every variant of opportunity the scorer's profit score is the
\* average of min(expected_profit / 10 x 100, 100) and min(p x 10, 100), p being
\* the opportunity's own profit-percentage estimate.
C22_ProfitScoreUsesOwnPercentage ==
    pc = "score_done" =>
        \A k \in DOMAIN scored :
            scored[k].profit_score =
                RDiv(RAdd(RMin(RMul(RDiv(scored[k].opportunity.expected_profit,
                                         RInt(10)), RInt(100)), RHundred),
                          RMin(RMul(OwnProfitPercentage(scored[k].opportunity),
                                    RInt(10)), RHundred)),
                     RInt(2))


\* the confidences a time-based pattern can carry
PatternConfidences == {Rat(65, 100), Rat(70, 100), Rat(85, 100), Rat(90, 100)}

\* C23: the confidence score is 90 for an imbalance, 80 for a cross-market, 70
\* for a correlated-events and 60 for a multi-leg opportunity, and for a
\* time-based opportunity it follows the opportunity's confidence field: the
\* same opportunity with another confidence gets another confidence score.
C23_ConfidenceFollowsVariant ==
    pc = "score_done" =>
        \A k \in DOMAIN scored :
            LET o == scored[k].opportunity
            IN  /\ o.type = "YesNoImbalance" => scored[k].confidence_score = RInt(90)
                /\ o.type = "CrossMarket" => scored[k].confidence_score = RInt(80)
                /\ o.type = "CorrelatedEvents" => scored[k].confidence_score = RInt(70)
                /\ o.type = "MultiLeg" => scored[k].confidence_score = RInt(60)
                /\ o.type = "TimeBased" =>
                      \A c \in PatternConfidences \ {o.confidence} :
                          ScoreConfidence([o EXCEPT !.confidence = c])
                              # scored[k].confidence_score


\* the total the scorer's weights give x's sub-scores with the profit
\* sub-score replaced by profit_score
ScoreWithProfit(x, profit_score) ==
    WeightedScore(profit_score, x.capital_efficiency_score, x.confidence_score,
                  x.risk_score, x.execution_difficulty)

\* profit sub-scores to compare with: the range's ends and middle, and those
\* of the list
ProfitScores ==
    {RZero, RInt(25), RInt(50), RHundred}
    \cup {scored[j].profit_score : j \in DOMAIN scored}

\* C18: with the other four sub-scores held fixed, the composite score never
\* decreases when the profit sub-score rises: a lower profit sub-score gives a
\* composite no higher, a higher one a composite no lower, than the score of
\* each scored opportunity (which is the weighted total of its sub-scores).
C18_MonotoneInProfitScore ==
    pc = "score_done" =>
        \A i \in DOMAIN scored :
            /\ scored[i].score = ScoreWithProfit(scored[i], scored[i].profit_score)
            /\ \A p \in ProfitScores :
                  /\ RLe(p, scored[i].profit_score)
                     => RLe(ScoreWithProfit(scored[i], p), scored[i].score)
                  /\ RLe(scored[i].profit_score, p)
                     => RLe(scored[i].score, ScoreWithProfit(scored[i], p))

\* two opportunities of the list differ in profit sub-score, and the higher
\* one put in place of the lower gives a strictly higher composite
C18_Witness ==
    /\ pc = "score_done"
    /\ \E i, j \in DOMAIN scored :
          /\ RLt(scored[i].profit_score, scored[j].profit_score)
          /\ RLt(scored[i].score, ScoreWithProfit(scored[i], scored[j].profit_score))

(***************************************************************************)
(* SpecTimeBased: a TimeBasedStrategy called repeatedly while the clock    *)
(* advances; its price history lives in strategy.price_history.            *)
(***************************************************************************)
MaxHours == 4

\* hours the clock advances before a call; after 23 hours the oldest of three
\* hourly samples has left the 24 hours kept
ClockSteps == {1, 13, 23}

\* <<yes price in cents, hours from the call to end_date>> of the snapshots
\* of market 1: inside the window, beyond it, already resolved
TBQuotes == {<<90, 5>>, <<10, 5>>, <<10, 48>>, <<10, -1>>}

TBMarket(i, yes_price, end_date) ==
    WithEndDate(Market(MarketId(i), QWin, "sports", yes_price, 100 - yes_price,
                       yes_price - 1, yes_price + 1,
                       99 - yes_price, 101 - yes_price, 10000),
                end_date)

\* the lists a call can be given at a time
TBInputs(timestamp) ==
    {<<>>}
    \cup {<<TBMarket(1, q[1], timestamp + q[2])>> : q \in TBQuotes}
    \cup {<<TBMarket(2, 50, timestamp + 5), TBMarket(1, 10, timestamp + 5)>>}

InitTimeBased ==
    /\ strategy = TimeBasedStrategy(Rat(3, 5), 24, Rat(1, 2))
    /\ now = 0
    /\ markets = <<>>
    /\ opportunities = Unused
    /\ config = Unused /\ gas_price = Unused /\ profitable = Unused
    /\ scored = Unused /\ sizing = Unused /\ allocation = Unused
    /\ risk_manager = Unused /\ trade_executor = Unused /\ to_close = Unused
    /\ ws_client = Unused /\ connections = Unused
    /\ pc = "start"

\* datetime.now() has moved on; detect(ms)
TimeBasedCall ==
    /\ now < MaxHours
    /\ \E dt \in ClockSteps : now' = now + dt
    /\ \E ms \in TBInputs(now') :
          LET st == TimeBasedDetect(strategy, ms, now')
          IN  /\ markets' = ms
              /\ opportunities' = [raised |-> st.raised, out |-> st.out]
              /\ strategy' = [strategy EXCEPT !.price_history = st.price_history]
    /\ pc' = "time_based_done"
    /\ UNCHANGED <<config, gas_price, profitable, scored, sizing, allocation>>
    /\ UNCHANGED <<risk_manager, trade_executor, to_close, ws_client, connections>>

\* reset_history()
ResetHistoryCall ==
    /\ strategy' = ResetHistory(strategy)
    /\ pc' = "reset_done"
    /\ UNCHANGED <<now, markets, opportunities>>
    /\ UNCHANGED <<config, gas_price, profitable, scored, sizing, allocation>>
    /\ UNCHANGED <<risk_manager, trade_executor, to_close, ws_client, connections>>

NextTimeBased == TimeBasedCall \/ ResetHistoryCall

SpecTimeBased == InitTimeBased /\ [][NextTimeBased]_vars

TimeBasedReturned == pc = "time_based_done" /\ ~opportunities.raised

\* the opportunities of the returned list emitted for snapshot i
TimeBasedOppsFor(i) ==
    {j \in DOMAIN opportunities.out :
        opportunities.out[j].market.market_id = markets[i].market_id}

BeyondWindow(market) == market.end_date - now > strategy.time_window_hours

\* C11: a call of detect emits no opportunity for a market whose end_date is
\* more than time_window_hours after the time of the call, whatever price
\* history the matcher holds for it.
C11_OutsideWindowEmitsNothing ==
    TimeBasedReturned =>
        \A i \in DOMAIN markets :
            BeyondWindow(markets[i]) => TimeBasedOppsFor(i) = {}

\* a market with three samples in its history, for which the same snapshot
\* ending inside the window is emitted, is presented beyond the window
C11_Witness ==
    /\ TimeBasedReturned
    /\ \E i \in DOMAIN markets :
          /\ BeyondWindow(markets[i])
          /\ Len(GetPriceHistory(strategy.price_history,
                                 markets[i].market_id)) >= 3
          /\ TimeBasedDetect(strategy,
                             <<[markets[i] EXCEPT !.end_date = now + 5]>>,
                             now).out # <<>>
          /\ TimeBasedOppsFor(i) = {}


\* the history the matcher holds for snapshot i of the list just given
HistoryBefore(i) == GetPriceHistory(strategy.price_history, markets'[i].market_id)
HistoryAfter(i) == GetPriceHistory(strategy'.price_history, markets'[i].market_id)

InWindow(i) ==
    /\ markets'[i].end_date - now' <= strategy.time_window_hours
    /\ markets'[i].end_date - now' >= 0

\* C25: the history is capped at 24 hours.  After a call of detect at time t
\* has recorded a sample for a market, every sample kept for that market has a
\* timestamp >= t - 24h and the last one is the sample just recorded; the
\* history of every market the call recorded nothing for is unchanged.
C25_RollingHistoryCap ==
    [][now' # now =>
          /\ \A i \in DOMAIN markets' :
                InWindow(i) =>
                    /\ HistoryAfter(i) # <<>>
                    /\ HistoryAfter(i)[Len(HistoryAfter(i))]
                          = <<now', markets'[i].yes_price, markets'[i].no_price>>
                    /\ \A n \in DOMAIN HistoryAfter(i) :
                          HistoryAfter(i)[n][1] >= now' - 24
          /\ \A id \in DOMAIN strategy.price_history :
                (\A i \in DOMAIN markets' :
                    markets'[i].market_id = id => ~InWindow(i))
                => /\ id \in DOMAIN strategy'.price_history
                   /\ strategy'.price_history[id] = strategy.price_history[id]
          /\ \A id \in DOMAIN strategy'.price_history \ DOMAIN strategy.price_history :
                \E i \in DOMAIN markets' : markets'[i].market_id = id /\ InWindow(i)]_vars

\* a call has just recorded a sample for a market whose history reaches back
\* exactly 24 hours: the samples of the hours 2, 3 and 26
C25_Witness ==
    /\ TimeBasedReturned
    /\ \E i \in DOMAIN markets :
          LET history == GetPriceHistory(strategy.price_history, markets[i].market_id)
          IN  /\ Len(history) = 3
              /\ history[1][1] = now - 24
              /\ history[3][1] = now


\* a newly constructed matcher with the parameters of the one in use
FreshStrategy ==
    TimeBasedStrategy(strategy.min_profit_pct, strategy.time_window_hours,
                      strategy.volatility_threshold)

\* C26: reset_history restores the initial state.  After it get_price_history
\* returns the empty history for every market id, the matcher equals a newly
\* constructed one with the same parameters, and the next call of detect
\* returns what it returns on the new one, whatever list it is given.
C26_ResetRestoresInitialState ==
    pc = "reset_done" =>
        /\ \A i \in 1..2 : GetPriceHistory(strategy.price_history, MarketId(i)) = <<>>
        /\ strategy = FreshStrategy
        /\ \A dt \in ClockSteps :
              \A ms \in TBInputs(now + dt) :
                  TimeBasedDetect(strategy, ms, now + dt)
                      = TimeBasedDetect(FreshStrategy, ms, now + dt)

\* the history is reset right after a call that emitted from at least three
\* samples
C26_Witness ==
    /\ pc = "reset_done"
    /\ opportunities # Unused
    /\ ~opportunities.raised /\ opportunities.out # <<>>
    /\ strategy.price_history = <<>>


(***************************************************************************)
(* SpecRisk: a RiskManager driven through its interface while prices and   *)
(* the clock move, with the bot's position-management step.                *)
(***************************************************************************)
MaxPositions == 2
MaxClock == 2
\* add_position is not called once the exposure exceeds this many dollars
MaxExposure == 5

PositionIds == 1..MaxPositions

\* the YES prices, in cents, the one market takes
RiskPrices == {0, 40, 45, 50}

RiskMarket(yes_price) ==
    Market("m1", QWin, "sports", yes_price, 100 - yes_price,
           yes_price, yes_price, 100 - yes_price, 100 - yes_price, 10000)

RiskConfig(mode) ==
    [mode |-> mode, initial_capital |-> RInt(10000),
     stop_loss_percentage |-> Rat(10, 100), max_position_age_hours |-> 1]

InitRisk ==
    /\ config \in {RiskConfig(mode) : mode \in {"alert", "auto_trade"}}
    /\ risk_manager = RiskManager(config)
    /\ markets = <<RiskMarket(50)>>
    /\ now = 0
    /\ to_close = <<>>
    /\ gas_price = Unused /\ opportunities = Unused /\ profitable = Unused
    /\ scored = Unused /\ strategy = Unused /\ sizing = Unused
    /\ allocation = Unused /\ trade_executor = Unused
    /\ ws_client = Unused /\ connections = Unused
    /\ pc = "start"

RiskUntouched ==
    UNCHANGED <<config, gas_price, opportunities, profitable, scored, strategy,
                sizing, allocation, trade_executor, ws_client, connections>>

\* add_position(Position(id, "m1", "YES", 10, 0.50, now))
AddPositionCall ==
    /\ RLe(risk_manager.current_exposure, RInt(MaxExposure))
    /\ \E id \in PositionIds :
          risk_manager' = AddPosition(risk_manager,
                                      Position(id, "m1", "YES", 10, 50, now))
    /\ to_close' = <<>>
    /\ pc' = "risk_idle"
    /\ UNCHANGED <<markets, now>>
    /\ RiskUntouched

\* remove_position(id), tracked or not
RemovePositionCall ==
    /\ \E id \in PositionIds : risk_manager' = RemovePosition(risk_manager, id)
    /\ to_close' = <<>>
    /\ pc' = "risk_idle"
    /\ UNCHANGED <<markets, now>>
    /\ RiskUntouched

\* _fetch_markets: the market trades at another price
FetchMarkets ==
    /\ \E yes_price \in RiskPrices :
          /\ markets # <<RiskMarket(yes_price)>>
          /\ markets' = <<RiskMarket(yes_price)>>
    /\ to_close' = <<>>
    /\ pc' = "risk_idle"
    /\ UNCHANGED <<risk_manager, now>>
    /\ RiskUntouched

\* an hour passes
Tick ==
    /\ now < MaxClock
    /\ now' = now + 1
    /\ to_close' = <<>>
    /\ pc' = "risk_idle"
    /\ UNCHANGED <<risk_manager, markets>>
    /\ RiskUntouched

\* update_position_prices({m.market_id: m for m in markets})
UpdatePositionPricesCall ==
    /\ risk_manager' = UpdatePositionPrices(risk_manager, markets)
    /\ risk_manager' # risk_manager
    /\ to_close' = <<>>
    /\ pc' = "risk_idle"
    /\ UNCHANGED <<markets, now>>
    /\ RiskUntouched

\* check_stop_losses()
CheckStopLossesCall ==
    /\ to_close' = CheckStopLosses(risk_manager, config)
    /\ pc' = "stop_checked"
    /\ UNCHANGED <<risk_manager, markets, now>>
    /\ RiskUntouched

\* _manage_positions()
ManagePositionsStep ==
    /\ LET done == ManagePositions(risk_manager, config, markets, now)
       IN  /\ risk_manager' = done.risk_manager
           /\ to_close' = done.to_close
    /\ pc' = "managed"
    /\ UNCHANGED <<markets, now>>
    /\ RiskUntouched

NextRisk ==
    \/ AddPositionCall
    \/ RemovePositionCall
    \/ FetchMarkets
    \/ Tick
    \/ UpdatePositionPricesCall
    \/ CheckStopLossesCall
    \/ ManagePositionsStep

SpecRisk == InitRisk /\ [][NextRisk]_vars

\* the bot runs its position-management step in every iteration of its loop
SpecRiskFair == SpecRisk /\ WF_vars(ManagePositionsStep)

\* sum(p.entry_price * p.size for p in self.positions.values())
TrackedExposure(rm) == RSum([i \in DOMAIN rm.positions |-> PositionCost(rm.positions[i])])

\* C28: after any sequence of add_position and remove_position calls, with ids
\* tracked or not, current_exposure is the sum of entry_price x size over the
\* tracked positions, and 0 when none is tracked.
C28_ExposureMatchesTracked ==
    risk_manager.current_exposure = TrackedExposure(risk_manager)

\* C16: check_stop_losses returns the id of a tracked position if and only if
\* (entry_price - current_price) / entry_price > stop_loss_percentage, whatever
\* the current price in [0, 1].
C16_StopLossIff ==
    pc = "stop_checked" =>
        \A i \in DOMAIN risk_manager.positions :
            LET position == risk_manager.positions[i]
            IN  (position.position_id \in Range(to_close))
                <=> RGt(RDiv(RSub(Cents(position.entry_price),
                                  Cents(position.current_price)),
                             Cents(position.entry_price)),
                        config.stop_loss_percentage)

\* the stop-loss or the age-limit trigger fires for the tracked position id
Triggered(id) ==
    /\ Tracked(risk_manager, id)
    /\ \/ StopLossFires(config, PositionOf(risk_manager, id))
       \/ AgeLimitFires(config, PositionOf(risk_manager, id), now)

\* C20: in auto_trade mode, a tracked position whose stop-loss or age-limit
\* trigger fires is eventually closed: the position-management step that the bot
\* keeps running takes it out of RiskManager.positions.
C20_TriggeredPositionIsClosed ==
    \A id \in PositionIds :
        (config.mode = "auto_trade" /\ Triggered(id))
            ~> ~Tracked(risk_manager, id)


(***************************************************************************)
(* SpecExecutor: a legacy TradeExecutor executing one opportunity after    *)
(* another; opportunities is the list of those executed so far.            *)
(***************************************************************************)
MaxExecutions == 3

LegacyOpportunity(type, ms, details) ==
    [type |-> type, markets |-> ms, expected_profit |-> Rat(3, 100),
     details |-> details]

LegacyOpportunities ==
    { LegacyOpportunity("yes_no_imbalance", <<"market-1">>,
                        [yes_ask |-> 48, no_ask |-> 48]),
      LegacyOpportunity("cross_market", <<"market-1", "market-2">>,
                        [market1_yes_ask |-> 45]),
      LegacyOpportunity("multi_leg", <<"market-1", "market-2", "market-3">>,
                        [markets_info |-> [m \in {"market-1"} |-> [yes_ask |-> 30]]]),
      LegacyOpportunity("correlated_events", <<"market-1", "market-2">>,
                        [event |-> 0]),
      LegacyOpportunity("yes_no_imbalance", <<>>, [yes_ask |-> 48, no_ask |-> 48]) }

InitExecutor ==
    /\ trade_executor \in {TradeExecutor(RInt(100), dry_run, session) :
                              dry_run \in BOOLEAN, session \in BOOLEAN}
    /\ opportunities = <<>>
    /\ config = Unused /\ markets = Unused /\ gas_price = Unused
    /\ profitable = Unused /\ scored = Unused /\ strategy = Unused
    /\ sizing = Unused /\ allocation = Unused
    /\ now = Unused /\ risk_manager = Unused /\ to_close = Unused
    /\ ws_client = Unused /\ connections = Unused
    /\ pc = "start"

\* await executor.execute_opportunity(opportunity)
ExecuteOpportunityCall ==
    /\ Len(opportunities) < MaxExecutions
    /\ \E opportunity \in LegacyOpportunities, all_placed \in BOOLEAN :
          /\ trade_executor' =
                ExecuteOpportunity(trade_executor, opportunity,
                                   [i \in 1..3 |-> all_placed]).executor
          /\ opportunities' = Append(opportunities, opportunity)
    /\ pc' = "executed"
    /\ UNCHANGED <<config, markets, gas_price, profitable, scored, strategy,
                   sizing, allocation, now, risk_manager, to_close,
                   ws_client, connections>>

NextExecutor == ExecuteOpportunityCall

SpecExecutor == InitExecutor /\ [][NextExecutor]_vars

SeededTimeBased ==
    LET fresh == TimeBasedStrategy(Rat(3, 5), 24, Rat(1, 2))
        first == [fresh EXCEPT !.price_history =
                     TimeBasedDetect(fresh, <<TBMarket(1, 90, 6)>>, 1).price_history]
        second == [first EXCEPT !.price_history =
                      TimeBasedDetect(first, <<TBMarket(1, 90, 7)>>, 2).price_history]
    IN  [second EXCEPT !.price_history =
            TimeBasedDetect(second, <<TBMarket(1, 10, 8)>>, 3).price_history]

Matchers ==
    { [name |-> "yes_no_imbalance",
       instance |-> YesNoImbalanceStrategy(Rat(1, 2), Rat(2, 100))],
      [name |-> "cross_market", instance |-> CrossMarketStrategy(Rat(1, 2))],
      [name |-> "multi_leg", instance |-> MultiLegStrategy(RInt(1), 5)],
      [name |-> "correlated_events",
       instance |-> CorrelatedEventsStrategy(Rat(1, 2), Rat(5, 100))],
      [name |-> "order_book_spread",
       instance |-> OrderBookSpreadStrategy(RInt(2), Rat(1, 2))],
      [name |-> "time_based",
       instance |-> TimeBasedStrategy(Rat(3, 5), 24, Rat(1, 2))],
      [name |-> "time_based", instance |-> SeededTimeBased] }

\* strategy.detect(markets): the result and the instance the call leaves
MatcherDetect(matcher, ms, timestamp) ==
    LET instance == matcher.instance
        Stateless(result) == [result |-> result, instance |-> instance]
    IN  CASE matcher.name = "yes_no_imbalance" -> Stateless(YesNoDetect(instance, ms))
          [] matcher.name = "cross_market" -> Stateless(CrossMarketDetect(instance, ms))
          [] matcher.name = "multi_leg" -> Stateless(MultiLegDetect(instance, ms))
          [] matcher.name = "correlated_events" ->
                Stateless(CorrelatedEventsDetect(instance, ms))
          [] matcher.name = "order_book_spread" ->
                Stateless(OrderBookSpreadDetect(instance, ms))
          [] matcher.name = "time_based" ->
                LET st == TimeBasedDetect(instance, ms, timestamp)
                IN  [result |-> [raised |-> st.raised, out |-> st.out],
                     instance |-> [instance EXCEPT !.price_history = st.price_history]]

EmptyInputs(timestamp) ==
    { <<>>,
      <<TBMarket(1, 10, timestamp + 5)>>,
      <<TBMarket(1, 29, timestamp + 5), TBMarket(2, 29, timestamp + 5)>> }

InitEmpty ==
    /\ now \in {4, 30}
    /\ strategy \in Matchers
    /\ config \in {DetectorConfig(sl, Rat(1, 2), RInt(5), Rat(3, 2), Rat(6, 5)) :
                      sl \in StrategyLists}
    /\ markets \in EmptyInputs(now)
    /\ opportunities = Unused
    /\ gas_price = Unused /\ profitable = Unused /\ scored = Unused
    /\ sizing = Unused /\ allocation = Unused
    /\ risk_manager = Unused /\ trade_executor = Unused /\ to_close = Unused
    /\ ws_client = Unused /\ connections = Unused
    /\ pc = "start"

\* strategy.detect(markets)
MatcherCall ==
    /\ pc = "start"
    /\ LET done == MatcherDetect(strategy, markets, now)
       IN  /\ opportunities' = done.result
           /\ strategy' = [strategy EXCEPT !.instance = done.instance]
    /\ pc' = "matcher_done"
    /\ UNCHANGED <<config, markets, gas_price, profitable, scored, sizing,
                   allocation, now, risk_manager, trade_executor, to_close,
                   ws_client, connections>>

\* detector.detect_opportunities(markets)
DetectorCall ==
    /\ pc = "start"
    /\ opportunities' = DetectOpportunities(config, markets)
    /\ pc' = "detector_done"
    /\ UNCHANGED <<config, markets, gas_price, profitable, scored, strategy,
                   sizing, allocation, now, risk_manager, trade_executor, to_close,
                   ws_client, connections>>

NextEmpty == MatcherCall \/ DetectorCall

SpecEmpty == InitEmpty /\ [][NextEmpty]_vars

\* C19: called on the empty list, detect_opportunities and each matcher's
\* detect return the empty list without raising, and leave the matcher as it
\* was, the price history of the time-based matcher included.
C19_EmptyInputTolerated ==
    [][(pc = "start" /\ markets = <<>>)
         => (opportunities' = Returned(<<>>) /\ strategy' = strategy)]_vars

\* a time-based matcher holding samples was called on the empty list
C19_Witness ==
    /\ pc = "matcher_done"
    /\ markets = <<>>
    /\ strategy.name = "time_based"
    /\ Len(GetPriceHistory(strategy.instance.price_history, MarketId(1))) = 3
    /\ opportunities = Returned(<<>>)


(***************************************************************************)
(* WebSocketClient (market/websocket_client.py).  The bot's start() and    *)
(* stop() run in one task, listen() in another; asyncio switches tasks at  *)
(* an await only, so each action below is the code between two awaits.     *)
(* connections[c] is the state of the c-th connection websockets.connect   *)
(* returned: "open", "closed" (closing handshake done, the message         *)
(* iterator ends) or "lost" (the iterator raises ConnectionClosedError).   *)
(***************************************************************************)
MaxConnections == 3

\* the client after __init__
WebSocketClient ==
    [websocket |-> None, subscribed_markets |-> {}, is_running |-> FALSE,
     reconnect_delay |-> 1, max_reconnect_delay |-> 60]

\* connect(), once websockets.connect has returned connection c
Connect(client, c) ==
    [client EXCEPT !.websocket = c, !.is_running = TRUE, !.reconnect_delay = 1]

\* min(self._reconnect_delay * 2, self._max_reconnect_delay)
ReconnectDelay(client) ==
    IF client.reconnect_delay * 2 < client.max_reconnect_delay
    THEN client.reconnect_delay * 2 ELSE client.max_reconnect_delay

\* websocket.close(): the closing handshake of a connection still open
Close(conns, c) == [conns EXCEPT ![c] = IF @ = "open" THEN "closed" ELSE @]

\* the except branches of listen: if self.is_running: await self._reconnect()
ListenExcept(client) == IF client.is_running THEN "sleeping" ELSE "loop"

InitWebSocket ==
    /\ ws_client \in {[WebSocketClient EXCEPT !.subscribed_markets = subscribed] :
                         subscribed \in {{}, {"m1"}}}
    /\ connections = <<>>
    /\ pc = [bot |-> "constructed", listen |-> "not_started", iter |-> None]
    /\ config = Unused /\ markets = Unused /\ gas_price = Unused
    /\ opportunities = Unused /\ profitable = Unused /\ scored = Unused
    /\ strategy = Unused /\ sizing = Unused /\ allocation = Unused
    /\ now = Unused /\ risk_manager = Unused /\ trade_executor = Unused
    /\ to_close = Unused

WebSocketUntouched ==
    UNCHANGED <<config, markets, gas_price, opportunities, profitable, scored,
                strategy, sizing, allocation, now, risk_manager, trade_executor,
                to_close>>

\* start(): await self.ws_client.connect() reaches websockets.connect
BotConnect ==
    /\ pc.bot = "constructed"
    /\ pc' = [pc EXCEPT !.bot = "connecting"]
    /\ UNCHANGED <<ws_client, connections>>
    /\ WebSocketUntouched

\* the connection is made: asyncio.create_task(self.ws_client.listen())
BotConnected ==
    /\ pc.bot = "connecting"
    /\ Len(connections) < MaxConnections
    /\ connections' = Append(connections, "open")
    /\ ws_client' = Connect(ws_client, Len(connections'))
    /\ pc' = [pc EXCEPT !.bot = "running", !.listen = "loop"]
    /\ WebSocketUntouched

\* websockets.connect raises: start() goes to its finally clause
BotConnectFailed ==
    /\ pc.bot = "connecting"
    /\ pc' = [pc EXCEPT !.bot = "failed"]
    /\ UNCHANGED <<ws_client, connections>>
    /\ WebSocketUntouched

\* stop(): disconnect() up to await self.websocket.close()
Disconnect ==
    /\ pc.bot \in {"running", "failed"}
    /\ ws_client' = [ws_client EXCEPT !.is_running = FALSE]
    /\ IF ws_client.websocket # None
       THEN /\ connections' = Close(connections, ws_client.websocket)
            /\ pc' = [pc EXCEPT !.bot = "closing"]
       ELSE /\ connections' = connections
            /\ pc' = [pc EXCEPT !.bot = "stopped"]
    /\ WebSocketUntouched

\* close() has returned: self.websocket = None
DisconnectClosed ==
    /\ pc.bot = "closing"
    /\ ws_client' = [ws_client EXCEPT !.websocket = None]
    /\ pc' = [pc EXCEPT !.bot = "stopped"]
    /\ UNCHANGED connections
    /\ WebSocketUntouched

\* the server or the network ends an open connection, with or without a
\* closing handshake
ConnectionDrop ==
    /\ \E c \in DOMAIN connections, state \in {"closed", "lost"} :
          /\ connections[c] = "open"
          /\ connections' = [connections EXCEPT ![c] = state]
    /\ UNCHANGED <<ws_client, pc>>
    /\ WebSocketUntouched

\* listen: while self.is_running, up to the next await
ListenLoop ==
    /\ pc.listen = "loop"
    /\ pc' = IF ~ws_client.is_running THEN [pc EXCEPT !.listen = "done"]
             ELSE IF ws_client.websocket = None
                  THEN [pc EXCEPT !.listen = "connecting"]
                  ELSE [pc EXCEPT !.listen = "receiving",
                                  !.iter = ws_client.websocket]
    /\ UNCHANGED <<ws_client, connections>>
    /\ WebSocketUntouched

\* listen: await self.connect() returns, async for message in self.websocket
ListenConnected ==
    /\ pc.listen = "connecting"
    /\ Len(connections) < MaxConnections
    /\ connections' = Append(connections, "open")
    /\ ws_client' = Connect(ws_client, Len(connections'))
    /\ pc' = [pc EXCEPT !.listen = "receiving", !.iter = Len(connections')]
    /\ WebSocketUntouched

\* listen: await self.connect() raises
ListenConnectFailed ==
    /\ pc.listen = "connecting"
    /\ pc' = [pc EXCEPT !.listen = ListenExcept(ws_client)]
    /\ UNCHANGED <<ws_client, connections>>
    /\ WebSocketUntouched

\* listen: the message iterator ends, the connection was closed
ListenIteratorEnds ==
    /\ pc.listen = "receiving"
    /\ connections[pc.iter] = "closed"
    /\ pc' = [pc EXCEPT !.listen = "loop", !.iter = None]
    /\ UNCHANGED <<ws_client, connections>>
    /\ WebSocketUntouched

\* listen: the message iterator raises WebSocketException
ListenIteratorRaises ==
    /\ pc.listen = "receiving"
    /\ connections[pc.iter] = "lost"
    /\ pc' = [pc EXCEPT !.listen = ListenExcept(ws_client), !.iter = None]
    /\ UNCHANGED <<ws_client, connections>>
    /\ WebSocketUntouched

\* _reconnect: asyncio.sleep returns, the delay doubles, await self.connect()
ReconnectWakes ==
    /\ pc.listen = "sleeping"
    /\ ws_client' = [ws_client EXCEPT !.reconnect_delay = ReconnectDelay(ws_client)]
    /\ pc' = [pc EXCEPT !.listen = "reconnecting"]
    /\ UNCHANGED connections
    /\ WebSocketUntouched

\* _reconnect: connect() returns; the first subscribe_market reaches its send
ReconnectConnected ==
    /\ pc.listen = "reconnecting"
    /\ Len(connections) < MaxConnections
    /\ connections' = Append(connections, "open")
    /\ ws_client' = Connect(ws_client, Len(connections'))
    /\ pc' = [pc EXCEPT !.listen = IF ws_client.subscribed_markets = {}
                                   THEN "loop" ELSE "subscribing"]
    /\ WebSocketUntouched

\* _reconnect: connect() raises, "Reconnection failed" is logged
ReconnectFailed ==
    /\ pc.listen = "reconnecting"
    /\ pc' = [pc EXCEPT !.listen = "loop"]
    /\ UNCHANGED <<ws_client, connections>>
    /\ WebSocketUntouched

\* _reconnect: the send of subscribe_market returns or raises; the market is
\* in subscribed_markets already
Resubscribed ==
    /\ pc.listen = "subscribing"
    /\ pc' = [pc EXCEPT !.listen = "loop"]
    /\ UNCHANGED <<ws_client, connections>>
    /\ WebSocketUntouched

ListenStep ==
    \/ ListenLoop
    \/ ListenConnected
    \/ ListenConnectFailed
    \/ ListenIteratorEnds
    \/ ListenIteratorRaises
    \/ ReconnectWakes
    \/ ReconnectConnected
    \/ ReconnectFailed
    \/ Resubscribed

NextWebSocket ==
    \/ BotConnect
    \/ BotConnected
    \/ BotConnectFailed
    \/ Disconnect
    \/ DisconnectClosed
    \/ ConnectionDrop
    \/ ListenStep

SpecWebSocket == InitWebSocket /\ [][NextWebSocket]_vars

\* the event loop runs every task that can run: the listener moves on from
\* each await that has a result, and close() returns
SpecWebSocketFair ==
    SpecWebSocket /\ WF_vars(ListenStep) /\ WF_vars(DisconnectClosed)

\* disconnect() has completed
Disconnected == pc.bot = "stopped"

\* listen() has returned, or was never started
ListenTerminated == pc.listen \in {"not_started", "done"}

\* C29: once disconnect() has completed, the listen() loop eventually
\* terminates, and the client opens no new connection and never sets
\* is_running back to true, whatever the interleaving of disconnect() with the
\* listener, a disconnect() during the backoff sleep of _reconnect included.
C29_ShutdownIsFinal ==
    /\ [][Disconnected => (/\ ~ws_client'.is_running
                           /\ Len(connections') = Len(connections))]_vars
    /\ Disconnected ~> ListenTerminated


(***************************************************************************)
(* Market updates: a frame the listener has parsed goes through            *)
(* WebSocketClient._handle_message to the bot's _on_market_update          *)
(* callback.  A dict is a function on its keys; prices are cents.          *)
(***************************************************************************)
MaxUpdates == 2

PriceFields == {"yes_price", "no_price", "yes_bid", "yes_ask", "no_bid", "no_ask"}

\* d.get(key): None when the key is absent
Get(d, key) == IF key \in DOMAIN d THEN d[key] ELSE None

\* d.get(key, default)
GetOr(d, key, default) == IF key \in DOMAIN d THEN d[key] ELSE default

\* the update dict _handle_message hands to the callbacks (timestamp left out)
MarketUpdate(data) ==
    [key \in PriceFields \cup {"market_id"} |-> Get(data, key)]

\* _on_market_update: the first market of the list with the update's id
OnMarketUpdate(ms, update) ==
    LET market_id == Get(update, "market_id")
        at == {i \in DOMAIN ms : ms[i].market_id = market_id}
    IN  IF at = {} THEN ms
        ELSE LET i == CHOOSE j \in at : \A k \in at : j <= k
                 market == ms[i]
             IN  [ms EXCEPT ![i] =
                     [market EXCEPT
                         !.yes_price = GetOr(update, "yes_price", market.yes_price),
                         !.no_price = GetOr(update, "no_price", market.no_price),
                         !.yes_bid = GetOr(update, "yes_bid", market.yes_bid),
                         !.yes_ask = GetOr(update, "yes_ask", market.yes_ask),
                         !.no_bid = GetOr(update, "no_bid", market.no_bid),
                         !.no_ask = GetOr(update, "no_ask", market.no_ask)]]

\* _handle_message with the bot's callback registered
HandleMessage(ms, data) ==
    IF Get(data, "type") = "market_update"
    THEN OnMarketUpdate(ms, MarketUpdate(data))
    ELSE ms

\* json.loads of a frame: a type, a market id and the price fields it carries,
\* each at 30 cents
Frame(type, market_id, fields) ==
    [key \in {"type", "market_id"} \cup fields |->
        IF key = "type" THEN type ELSE IF key = "market_id" THEN market_id ELSE 30]

Frames ==
    {Frame(type, market_id, fields) :
        type \in {"market_update", "trade"}, market_id \in {"m1", "m3"},
        fields \in SUBSET PriceFields}

InitUpdate ==
    /\ markets = << create_test_market("m1", 50, 52), create_test_market("m2", 40, 62) >>
    /\ pc = [handled |-> 0, message |-> <<>>]
    /\ config = Unused /\ gas_price = Unused
    /\ opportunities = Unused /\ profitable = Unused /\ scored = Unused
    /\ strategy = Unused /\ sizing = Unused /\ allocation = Unused
    /\ ComponentsUnused

\* listen: a frame arrives and is handled
MessageArrives ==
    /\ pc.handled < MaxUpdates
    /\ \E data \in Frames :
          /\ markets' = HandleMessage(markets, data)
          /\ pc' = [handled |-> pc.handled + 1, message |-> data]
    /\ UNCHANGED <<config, gas_price, opportunities, profitable, scored, strategy,
                   sizing, allocation>>
    /\ UNCHANGED components

NextUpdate == MessageArrives

SpecUpdate == InitUpdate /\ [][NextUpdate]_vars

\* the market the frame names: the first of the list with its id
UpdatedMarket(data) ==
    {i \in DOMAIN markets :
        /\ data["type"] = "market_update"
        /\ markets[i].market_id = data["market_id"]
        /\ \A j \in 1..(i - 1) : markets[j].market_id # data["market_id"]}

\* C30: a market_update message changes only the six price fields of the
\* market whose id matches; a price field absent from the message keeps its
\* previous value and is never overwritten with null; every other market of
\* the list is unchanged.
C30_UpdateWritesSentFieldsOnly ==
    [][LET data == pc'.message
       IN  /\ DOMAIN markets' = DOMAIN markets
           /\ \A i \in DOMAIN markets :
                 IF i \in UpdatedMarket(data)
                 THEN \A key \in DOMAIN markets[i] :
                         markets'[i][key] =
                            IF key \in PriceFields /\ key \in DOMAIN data
                            THEN data[key] ELSE markets[i][key]
                 ELSE markets'[i] = markets[i]]_vars

====
